---- MODULE Spec2Model ----
(***************************************************************************)
(* State-machine model of the effect-instance pools of the MIDI            *)
(* visualizer (bubbles, plasma, trees, solar, waves, water): note-on /     *)
(* note-off handlers, the per-frame update of each layer and the uniform   *)
(* arrays they write.                                                      *)
(*                                                                         *)
(* Numbers.  Times are integer milliseconds (performance.now(), dt).       *)
(* Every other float is a fixed-point integer with FP units per 1.0        *)
(* (0.05 is 500); products are divided back with \div, which rounds        *)
(* toward minus infinity.  Math.random() is a linear congruential stream   *)
(* over 0..999 (thousandths), advanced once per call, in call order.       *)
(* Math.sin / Math.cos are Bhaskara's rational approximation on whole      *)
(* degrees, Math.exp a cubic Taylor polynomial.                            *)
(***************************************************************************)
EXTENDS Integers, Sequences, FiniteSets, TLC

\* ---------------------------------------------------------------- bounds
\* Pool capacities, scaled down (the source has 100, 100, 20, 48, 96, 30).
MAX_BUBBLES == 2
MAX_PARTICLES == 2
MAX_SEEDS == 2
MAX_FLARES == 2
MAX_WAVES == 2
MAX_RIPPLES == 2
\* Note events per run; they arrive no later than just after frame BurstFrames.
MaxNotes == 3
\* Frames whose delta is drawn freely; later frames arrive every MAX_STEP_MS.
BurstFrames == 1
\* Frames per run.
MaxFrames == 64
\* Steps (notes, frames, mode changes, resizes) of a run with mode changes.
MaxUiSteps == 5
MaxSlotSteps == 6
\* MIDI messages and frames of a run with the MIDI wiring
MaxMidiNotes == 2
MaxMidiFrames == 2

\* ------------------------------------------------------ program constants
MAX_STEP_MS == 50
repeatMs == 140

FP == 10 * 1000

\* ---------------------------------------------------------------- inputs
Layers == {"bubbles", "waves", "plasma", "trees", "solar", "water"}
\* (note, velocity) of the note events
NoteInputs == {<<60, 100>>, <<69, 40>>}
\* heldMs of a note-off
HeldInputs == {0, 2000}
\* frame deltas of the first frames: a normal frame and a stall of a minute
\* (a tab left in the background), after which time / 1000 exceeds
\* MAX_STEP_MS
DeltaSet == {MAX_STEP_MS, 60 * 1000}
\* seeds of the Math.random() stream
Seeds == {0}
\* (width, height) of the container at mount, and after a resize
InitialSize == <<1280, 720>>
Sizes == {<<800, 600>>}

\* --------------------------------------------------------------- numerics
Min(a, b) == IF a < b THEN a ELSE b

Max(a, b) == IF a > b THEN a ELSE b

clamp(v, a, b) == Max(a, Min(b, v))

\* THREE.MathUtils.lerp(x, y, t), t in FP
lerp(x, y, t) == x + ((y - x) * t) \div FP

\* Math.random(): the next value of the stream, in thousandths
NextRand(r) == (21 * r + 7) % 1000

RECURSIVE RandN(_, _)
\* the stream after k calls
RandN(r, k) == IF k <= 0 THEN r ELSE RandN(NextRand(r), k - 1)

\* Math.sin of an angle in whole degrees, FP result (Bhaskara I)
SinDeg(d) ==
    LET m == d % 360
        h == IF m <= 180 THEN m ELSE m - 180
        p == h * (180 - h)
        v == (4 * p * FP) \div (40500 - p)
    IN IF m <= 180 THEN v ELSE 0 - v

CosDeg(d) == SinDeg(d + 90)

\* Math.exp(-x) for x in FP, 0 <= x <= 0.05 * 1.0
ExpNeg(x) == FP - x + (x * x) \div (2 * FP) - (x * x * x) \div (6 * FP * FP)

\* the delta applied verbatim, without the cap
DeltaVerbatim(dt) == dt

\* the delta in milliseconds that Math.min(dt / 1000, 0.05) stands for
DeltaSeconds(dt) == Min(dt, MAX_STEP_MS)

\* new THREE.Vector4(): (0, 0, 0, 1)
Vector4 == <<0, 0, 0, FP>>

Zero4 == <<0, 0, 0, 0>>

\* the slot search returning the last inactive slot instead of the first
FindInactiveLast(pool) ==
    IF \E i \in 1..Len(pool) : ~pool[i].active
    THEN CHOOSE i \in 1..Len(pool) :
           ~pool[i].active /\ \A j \in (i + 1)..Len(pool) : pool[j].active
    ELSE 0

\* pool.find(p => !p.active): index of the first inactive slot, 0 if none
FindInactive(pool) ==
    IF \E i \in 1..Len(pool) : ~pool[i].active
    THEN CHOOSE i \in 1..Len(pool) :
             ~pool[i].active /\ \A j \in 1..(i - 1) : pool[j].active
    ELSE 0

ActiveCount(pool) == Cardinality({i \in 1..Len(pool) : pool[i].active})

\* helpers.ts
noteToHue(n) == (n % 12) * 30

noteToX(n) == (n * FP) \div 127

\* ---------------------------------------------------------------- bubbles
\* BubbleData: data = (x, y, radius, hue), velocity = (vx, vy,
\* initialRadius, life); age and life in milliseconds.
createBubblesLayer ==
    [ u_time |-> 0,
      u_resolution |-> InitialSize,
      visible |-> TRUE,
      u_bubbles |-> [i \in 1..MAX_BUBBLES |-> Zero4],
      bubbles |-> [i \in 1..MAX_BUBBLES |->
                     [data |-> Vector4, velocity |-> <<0, 0, 0, 1000>>,
                      age |-> 0, active |-> FALSE]] ]

\* onBubbleNoteOn without the reset of the age
onBubbleNoteOnKeepAge(layer, vel, hue, r) ==
    LET free == FindInactive(layer.bubbles)
        i == IF free = 0 THEN 1 ELSE free
        r1 == NextRand(r)
        r2 == NextRand(r1)
        r3 == NextRand(r2)
        r4 == NextRand(r3)
        life == 3000 + 3 * r1
        initialRadius == 300 + (vel * 1200) \div 127
    IN [layer EXCEPT !.bubbles[i] =
          [active |-> TRUE, age |-> layer.bubbles[i].age,
           data |-> <<r2 * 10, -1000, 0, (hue * FP) \div 360>>,
           velocity |-> <<(r3 - 500) \div 2, 1000 + (r4 * 8) \div 10,
                          initialRadius, life>>]]

\* onBubbleNoteOn drawing the life from 3 to 9 seconds
onBubbleNoteOnLongLife(layer, vel, hue, r) ==
    LET free == FindInactive(layer.bubbles)
        i == IF free = 0 THEN 1 ELSE free
        r1 == NextRand(r)
        r2 == NextRand(r1)
        r3 == NextRand(r2)
        r4 == NextRand(r3)
        life == 3000 + 6 * r1
        initialRadius == 300 + (vel * 1200) \div 127
    IN [layer EXCEPT !.bubbles[i] =
          [active |-> TRUE, age |-> 0,
           data |-> <<r2 * 10, -1000, 0, (hue * FP) \div 360>>,
           velocity |-> <<(r3 - 500) \div 2, 1000 + (r4 * 8) \div 10,
                          initialRadius, life>>]]

\* r is the random stream before the call; the handler draws 4 values
onBubbleNoteOn(layer, vel, hue, r) ==
    LET free == FindInactive(layer.bubbles)
        i == IF free = 0 THEN 1 ELSE free
        r1 == NextRand(r)
        r2 == NextRand(r1)
        r3 == NextRand(r2)
        r4 == NextRand(r3)
        life == 3000 + 3 * r1
        initialRadius == 300 + (vel * 1200) \div 127
    IN [layer EXCEPT !.bubbles[i] =
          [active |-> TRUE, age |-> 0,
           data |-> <<r2 * 10, -1000, 0, (hue * FP) \div 360>>,
           velocity |-> <<(r3 - 500) \div 2, 1000 + (r4 * 8) \div 10,
                          initialRadius, life>>]]

\* a note-off that pops the first active bubble
onBubbleNoteOffPop(layer, vel, hue) ==
    IF \E i \in 1..Len(layer.bubbles) : layer.bubbles[i].active
    THEN LET i == CHOOSE k \in 1..Len(layer.bubbles) :
                    /\ layer.bubbles[k].active
                    /\ \A j \in 1..(k - 1) : ~layer.bubbles[j].active
         IN [layer EXCEPT !.bubbles[i].active = FALSE]
    ELSE layer

onBubbleNoteOff(layer, vel, hue) == layer

\* Math.sin(now * 1.5 + y * 15.0) * 0.0003, now in ms, y in FP
BubbleSway(now, y) ==
    LET mrad == (now * 3) \div 2 + (y * 3) \div 2
    IN (SinDeg((mrad * 180) \div 3142) * 3) \div FP

\* one iteration of the loop of updateBubbles: the slot and its uniform
BubbleStep(b, now, deltaSeconds) ==
    IF ~b.active THEN [slot |-> b, uniform |-> Zero4]
    ELSE
      LET y == b.data[2] + (b.velocity[2] * deltaSeconds) \div 1000
          x == b.data[1] + (b.velocity[1] * deltaSeconds) \div 1000
                 + BubbleSway(now, y)
          age == b.age + deltaSeconds
          ageRatio == (age * FP) \div b.velocity[4]
          scale == IF ageRatio < 1000
                   THEN (b.velocity[3] * ageRatio) \div 1000
                   ELSE (b.velocity[3]
                           * (FP - ((ageRatio - 1000) * FP) \div 9000)) \div FP
      IN IF age > b.velocity[4] \/ y > 11000
         THEN [slot |-> [b EXCEPT !.data = <<x, y, b.data[3], b.data[4]>>,
                                  !.age = age, !.active = FALSE],
               uniform |-> Zero4]
         ELSE [slot |-> [b EXCEPT !.data = <<x, y, Max(0, scale), b.data[4]>>,
                                  !.age = age],
               uniform |-> <<x, y, Max(0, scale), b.data[4]>>]

updateBubbles(layer, dt) ==
    LET step(i) == BubbleStep(layer.bubbles[i], layer.u_time, DeltaSeconds(dt))
    IN [layer EXCEPT
          !.bubbles = [i \in 1..Len(layer.bubbles) |-> step(i).slot],
          !.u_bubbles = [i \in 1..Len(layer.u_bubbles) |->
                           IF i <= Len(layer.bubbles) THEN step(i).uniform
                           ELSE layer.u_bubbles[i]]]

\* ----------------------------------------------------------------- plasma
\* PlasmaParticleData: data = (x, y, size, ageRatio); velocity is set as
\* (vx, vy, life, 1 / life), life in seconds.
createPlasmaLayer ==
    [ u_time |-> 0,
      u_resolution |-> InitialSize,
      visible |-> TRUE,
      u_particles |-> [i \in 1..MAX_PARTICLES |-> Vector4],
      particles |-> [i \in 1..MAX_PARTICLES |->
                       [data |-> Vector4, velocity |-> Vector4, active |-> FALSE]] ]

\* addHotspot that falls back to the first slot of a full pool
addHotspotOverwrite(particles, xNorm, vel, r) ==
    LET free == FindInactive(particles)
        i == IF free = 0 THEN 1 ELSE free
        r1 == NextRand(r)
        r2 == NextRand(r1)
        r3 == NextRand(r2)
        life == 25000 + 30 * r1
        size == 1000 + vel \div 1270
    IN [pool |-> [particles EXCEPT ![i] =
                    [active |-> TRUE,
                     data |-> <<xNorm, 1000, size, 0>>,
                     velocity |-> <<(r2 - 500) \div 2, 1000 + r3,
                                    life, (FP * FP) \div life>>]],
        rng |-> r3]

\* addHotspot on the pool; vel is the velocity times FP.  The pool and the
\* random stream after the call (no draw is made when the pool is full).
addHotspot(particles, xNorm, vel, r) ==
    LET i == FindInactive(particles)
        r1 == NextRand(r)
        r2 == NextRand(r1)
        r3 == NextRand(r2)
        life == 25000 + 30 * r1
        size == 1000 + vel \div 1270
    IN IF i = 0 THEN [pool |-> particles, rng |-> r]
       ELSE [pool |-> [particles EXCEPT ![i] =
                         [active |-> TRUE,
                          data |-> <<xNorm, 1000, size, 0>>,
                          velocity |-> <<(r2 - 500) \div 2, 1000 + r3,
                                         life, (FP * FP) \div life>>]],
             rng |-> r3]

addSpark(particles, xNorm, vel, r) ==
    LET i == FindInactive(particles)
        r1 == NextRand(r)
        r2 == NextRand(r1)
        r3 == NextRand(r2)
        life == 6000 + 8 * r1
        size == 500 + (vel * 8) \div 12700
        speed == 2000 + (vel * 3) \div 1270 + r2
        angle == (r3 * 360) \div 1000
    IN IF i = 0 THEN [pool |-> particles, rng |-> r]
       ELSE [pool |-> [particles EXCEPT ![i] =
                         [active |-> TRUE,
                          data |-> <<xNorm, 5000, size, 0>>,
                          velocity |-> <<(CosDeg(angle) * speed) \div FP,
                                         (SinDeg(angle) * speed) \div FP,
                                         life, (FP * FP) \div life>>]],
             rng |-> r3]

RECURSIVE HotspotLoop(_, _, _, _, _)
\* for (i = 0; i < count; i++) addHotspot(...)
HotspotLoop(particles, xNorm, vel, r, count) ==
    IF count <= 0 THEN [pool |-> particles, rng |-> r]
    ELSE LET a == addHotspot(particles, xNorm, vel, r)
         IN HotspotLoop(a.pool, xNorm, vel, a.rng, count - 1)

RECURSIVE SparkLoop(_, _, _, _, _)
SparkLoop(particles, xNorm, vel, r, count) ==
    IF count <= 0 THEN [pool |-> particles, rng |-> r]
    ELSE LET a == addSpark(particles, xNorm, vel, r)
         IN SparkLoop(a.pool, xNorm, vel, a.rng, count - 1)

\* count = 1 + Math.floor((vel / 127) * 2)
PlasmaNoteOnCount(vel) == 1 + (vel * 2) \div 127

\* the effective velocity without the boost of the hold time
PlasmaFlareVelUnboosted(vel, heldMs) == vel * FP

\* flareVel = Math.min(127, vel + heldMs / 25), times FP
PlasmaFlareVel(vel, heldMs) == Min(127 * FP, vel * FP + heldMs * 400)

\* count = 3 + Math.floor((flareVel / 127) * 10)
PlasmaNoteOffCount(flareVel) == 3 + (flareVel * 10) \div (127 * FP)

\* the layer and the random stream after the call
onPlasmaNoteOn(layer, xNorm, vel, r) ==
    LET a == HotspotLoop(layer.particles, xNorm, vel * FP, r, PlasmaNoteOnCount(vel))
    IN [layer |-> [layer EXCEPT !.particles = a.pool], rng |-> a.rng]

onPlasmaNoteOff(layer, xNorm, vel, heldMs, r) ==
    LET flareVel == PlasmaFlareVel(vel, heldMs)
        a == SparkLoop(layer.particles, xNorm, flareVel, r, PlasmaNoteOffCount(flareVel))
    IN [layer |-> [layer EXCEPT !.particles = a.pool], rng |-> a.rng]

\* p.velocity.multiplyScalar(0.98)
MultiplyScalar98(v) == [k \in 1..4 |-> (v[k] * 98) \div 100]

\* PlasmaStep that zeroes the whole data vector of a particle that dies
PlasmaStepZeroAll(p, deltaSeconds, rj) ==
    LET v1 == <<p.velocity[1] + ((rj - 500) * 2 * deltaSeconds) \div 1000,
                p.velocity[2] - (5 * deltaSeconds) \div 2,
                p.velocity[3], p.velocity[4]>>
        v == MultiplyScalar98(v1)
        x == p.data[1] + (v[1] * deltaSeconds) \div 1000
        y == p.data[2] + (v[2] * deltaSeconds) \div 1000
        ageRatio == p.data[4] + (deltaSeconds * v[3]) \div 1000
    IN IF ageRatio > FP
       THEN [p EXCEPT !.velocity = v, !.data = Zero4, !.active = FALSE]
       ELSE [p EXCEPT !.velocity = v, !.data = <<x, y, p.data[3], ageRatio>>]

\* PlasmaStep that lets a particle live on until twice its age ratio
PlasmaStepLateDeath(p, deltaSeconds, rj) ==
    LET v1 == <<p.velocity[1] + ((rj - 500) * 2 * deltaSeconds) \div 1000,
                p.velocity[2] - (5 * deltaSeconds) \div 2,
                p.velocity[3], p.velocity[4]>>
        v == MultiplyScalar98(v1)
        x == p.data[1] + (v[1] * deltaSeconds) \div 1000
        y == p.data[2] + (v[2] * deltaSeconds) \div 1000
        ageRatio == p.data[4] + (deltaSeconds * v[3]) \div 1000
    IN IF ageRatio > 2 * FP
       THEN [p EXCEPT !.velocity = v, !.data = <<x, y, 0, ageRatio>>,
                      !.active = FALSE]
       ELSE [p EXCEPT !.velocity = v, !.data = <<x, y, p.data[3], ageRatio>>]

\* one iteration of the loop of updatePlasma for an active particle; rj is
\* the Math.random() drawn for it
PlasmaStep(p, deltaSeconds, rj) ==
    LET v1 == <<p.velocity[1] + ((rj - 500) * 2 * deltaSeconds) \div 1000,
                p.velocity[2] - (5 * deltaSeconds) \div 2,
                p.velocity[3], p.velocity[4]>>
        v == MultiplyScalar98(v1)
        x == p.data[1] + (v[1] * deltaSeconds) \div 1000
        y == p.data[2] + (v[2] * deltaSeconds) \div 1000
        ageRatio == p.data[4] + (deltaSeconds * v[3]) \div 1000
    IN IF ageRatio > FP
       THEN [p EXCEPT !.velocity = v, !.data = <<x, y, 0, ageRatio>>,
                      !.active = FALSE]
       ELSE [p EXCEPT !.velocity = v, !.data = <<x, y, p.data[3], ageRatio>>]

\* now is performance.now(); the layer and the random stream after the call
updatePlasma(layer, dt, t, r) ==
    LET deltaSeconds == DeltaSeconds(dt)
        n == Len(layer.particles)
        \* the particle's draw is the k-th of the call, k counting the
        \* active particles up to it
        draw(i) == RandN(r, Cardinality({j \in 1..i : layer.particles[j].active}))
        step(i) == PlasmaStep(layer.particles[i], deltaSeconds, draw(i))
    IN [layer |->
          [layer EXCEPT
             !.u_time = t,
             !.particles = [i \in 1..n |->
                              IF layer.particles[i].active THEN step(i)
                              ELSE layer.particles[i]],
             !.u_particles = [i \in 1..Len(layer.u_particles) |->
                                IF i > n THEN layer.u_particles[i]
                                ELSE IF layer.particles[i].active THEN step(i).data
                                ELSE [layer.u_particles[i] EXCEPT ![3] = 0]]],
        rng |-> RandN(r, ActiveCount(layer.particles))]

\* ---------------------------------------------------------------- colours
\* hue2rgb of THREE.Color.setHSL
hue2rgb(p, q, t) ==
    LET u == IF t < 0 THEN t + FP ELSE IF t > FP THEN t - FP ELSE t
    IN IF 6 * u < FP THEN p + ((q - p) * 6 * u) \div FP
       ELSE IF 2 * u < FP THEN q
       ELSE IF 3 * u < 2 * FP THEN p + ((q - p) * 6 * ((2 * FP) \div 3 - u)) \div FP
       ELSE p

\* new THREE.Color().setHSL(h, s, l): (r, g, b)
setHSL(h, s, l) ==
    LET hh == h % FP
        ss == clamp(s, 0, FP)
        ll == clamp(l, 0, FP)
        p == IF 2 * ll <= FP THEN (ll * (FP + ss)) \div FP
             ELSE ll + ss - (ll * ss) \div FP
        q == 2 * ll - p
    IN IF ss = 0 THEN <<ll, ll, ll>>
       ELSE <<hue2rgb(q, p, hh + FP \div 3), hue2rgb(q, p, hh),
              hue2rgb(q, p, hh - FP \div 3)>>

\* the colour the MIDI hook attaches to a note-on
NoteColor(note) == setHSL((noteToHue(note) * FP) \div 360, FP, 6000)

\* ------------------------------------------------------------------ trees
\* TreeSeed: data = (x, y, birthTime, size), colorData = (r, g, b, flash);
\* birthTime and u_time in milliseconds.
createTreesLayer ==
    [ u_time |-> 0,
      u_resolution |-> InitialSize,
      visible |-> TRUE,
      u_seeds |-> [i \in 1..MAX_SEEDS |-> Vector4],
      u_seed_colors |-> [i \in 1..MAX_SEEDS |-> Vector4],
      seeds |-> [i \in 1..MAX_SEEDS |->
                   [data |-> Vector4, colorData |-> Vector4, active |-> FALSE]] ]

\* one Math.random() is drawn
onTreeNoteOn(layer, note, vel, color, r) ==
    LET free == FindInactive(layer.seeds)
        i == IF free = 0 THEN 1 ELSE free
    IN [layer EXCEPT !.seeds[i] =
          [active |-> TRUE,
           data |-> <<noteToX(note), NextRand(r) * 10, layer.u_time,
                      1000 + (vel * 3000) \div 127>>,
           colorData |-> <<color[1], color[2], color[3], FP>>]]

onTreeNoteOff(layer, note, vel, heldMs) == layer

\* TreeStep with the flash as a second timer: a seed whose flash has decayed
\* to 0 is deactivated as well
TreeStepFlashKills(seed, t, deltaSeconds) ==
    IF ~seed.active
    THEN [slot |-> seed, u_seed |-> Zero4, u_color |-> Zero4]
    ELSE LET flash == Max(0, seed.colorData[4] - 20 * deltaSeconds)
             c == [seed.colorData EXCEPT ![4] = flash]
         IN IF t - seed.data[3] > 20000 \/ flash = 0
            THEN [slot |-> [seed EXCEPT !.active = FALSE, !.data = Zero4,
                                        !.colorData = Zero4],
                  u_seed |-> Zero4, u_color |-> Zero4]
            ELSE [slot |-> [seed EXCEPT !.colorData = c],
                  u_seed |-> seed.data, u_color |-> c]

\* one iteration of the loop of updateTrees: the seed and its two uniforms
TreeStep(seed, t, deltaSeconds) ==
    IF ~seed.active
    THEN [slot |-> seed, u_seed |-> Zero4, u_color |-> Zero4]
    ELSE LET flash == Max(0, seed.colorData[4] - 20 * deltaSeconds)
             c == [seed.colorData EXCEPT ![4] = flash]
         IN IF t - seed.data[3] > 20000
            THEN [slot |-> [seed EXCEPT !.active = FALSE, !.data = Zero4,
                                        !.colorData = Zero4],
                  u_seed |-> Zero4, u_color |-> Zero4]
            ELSE [slot |-> [seed EXCEPT !.colorData = c],
                  u_seed |-> seed.data, u_color |-> c]

updateTrees(layer, dt, t) ==
    LET step(i) == TreeStep(layer.seeds[i], t, DeltaSeconds(dt))
        n == Len(layer.seeds)
    IN [layer EXCEPT
          !.u_time = t,
          !.seeds = [i \in 1..n |-> step(i).slot],
          !.u_seeds = [i \in 1..Len(layer.u_seeds) |->
                         IF i <= n THEN step(i).u_seed ELSE layer.u_seeds[i]],
          !.u_seed_colors = [i \in 1..Len(layer.u_seed_colors) |->
                               IF i <= n THEN step(i).u_color
                               ELSE layer.u_seed_colors[i]]]

\* ------------------------------------------------------------------ solar
RECURSIVE SqrtIter(_, _, _)
\* the largest k in lo..hi with k * k <= v
SqrtIter(v, lo, hi) ==
    IF lo >= hi THEN lo
    ELSE CHOOSE k \in {IF mid * mid <= v THEN SqrtIter(v, mid, hi)
                       ELSE SqrtIter(v, lo, mid - 1) :
                         mid \in {(lo + hi + 1) \div 2}} : TRUE

\* Math.floor(Math.sqrt(v)) for 0 <= v < 2^30
Isqrt(v) == SqrtIter(v, 0, 32767)

\* Math.pow(n, 1.2) for n in FP, 0 <= n <= 1: n times its fifth root, the
\* root found to hundredths
Pow12(n) ==
    LET c == n \div 100
        root == CHOOSE k \in 0..100 :
                    /\ ((k * k * k * k) \div 10) * k <= c * 10000000
                    /\ \A m \in (k + 1)..100 :
                           ((m * m * m * m) \div 10) * m > c * 10000000
    IN (n * root) \div 100

\* the remainder of JavaScript's %, whose sign is the dividend's
JsMod(a, b) == IF a >= 0 THEN a % b ELSE 0 - ((0 - a) % b)

\* noteToDiskXY: <<x, y>> on the disk
noteToDiskXY(note) ==
    LET pc == JsMod(note, 12)
        oct == note \div 12
        lat == lerp(-7000, 7000, clamp(((oct - 2) * FP) \div 6, 0, FP))
        r == CosDeg((lat * 180) \div 31416)
    IN <<(CosDeg(pc * 30) * r) \div FP, (SinDeg(pc * 30) * r) \div FP>>

\* hsvToRgb(h, s, v): c.setHSL(h, s, v)
hsvToRgb(h, s, v) == setHSL(h, s, v)

noteToColor(note) ==
    LET n == clamp(((note - 36) * FP) \div 60, 0, FP)
        hue == lerp(500, 6200, Pow12(n))
        sat == lerp(9000, FP, n)
    IN hsvToRgb(hue, sat, FP)

\* SolarParticleData: data = (x, y, size, ageRatio), velocity = (vx, vy,
\* life, invLife).  Wave: data = (x, y, radius, strength), color = (r, g, b,
\* width).  holds is the Map in insertion order, one record per key.
createSolarLayer(t) ==
    [ u_time |-> 0,
      u_resolution |-> InitialSize,
      visible |-> TRUE,
      u_params |-> <<2200, 3500, 3500, 3000>>,
      u_rotation |-> 0,
      u_flareBoost |-> 0,
      u_flares |-> [i \in 1..MAX_FLARES |-> Vector4],
      u_waves |-> [i \in 1..MAX_WAVES |-> Vector4],
      u_waveColor |-> [i \in 1..MAX_WAVES |-> Vector4],
      u_color |-> <<8000, 0>>,
      flares |-> [i \in 1..MAX_FLARES |->
                    [data |-> Vector4, velocity |-> Vector4, active |-> FALSE]],
      waves |-> [i \in 1..MAX_WAVES |->
                   [data |-> Vector4, color |-> Vector4, speed |-> 0,
                    decay |-> 0, active |-> FALSE]],
      state |-> [rotSpeed |-> 400, emaEnergy |-> 0, emaPitch |-> 60 * FP,
                 emaPitchVar |-> 0, activeNotes |-> {}, holds |-> <<>>,
                 lastNoteTs |-> t] ]

\* v.setLength(0.98) when v.length() > 0.98
ClampLength(x, y) ==
    LET len == Isqrt(x * x + y * y)
    IN IF x * x + y * y > 9800 * 9800
       THEN <<(x * 9800) \div len, (y * 9800) \div len>>
       ELSE <<x, y>>

\* the flare pool and the random stream after spawnFlare (size, life in FP)
spawnFlare(flares, x, y, size, life, r) ==
    LET i == FindInactive(flares)
        v == ClampLength(x, y)
        r1 == NextRand(r)
        r2 == NextRand(r1)
    IN IF i = 0 THEN [pool |-> flares, rng |-> r]
       ELSE [pool |-> [flares EXCEPT ![i] =
                         [active |-> TRUE,
                          data |-> <<v[1], v[2], size, 0>>,
                          velocity |-> <<((r1 - 500) * 8) \div 10,
                                         ((r2 - 500) * 8) \div 10,
                                         life, (FP * FP) \div life>>]],
             rng |-> r2]

\* spawnWave with the overwrite policy: a full pool loses its first wave
spawnWaveOverwrite(waves, origin, color, strength, speed, width, decay) ==
    LET free == FindInactive(waves)
        i == IF free = 0 THEN 1 ELSE free
    IN [waves EXCEPT ![i] =
          [active |-> TRUE,
           data |-> <<origin[1], origin[2], 200, strength>>,
           color |-> <<color[1], color[2], color[3], width>>,
           speed |-> speed, decay |-> decay]]

\* the wave pool after spawnWave
spawnWave(waves, origin, color, strength, speed, width, decay) ==
    LET i == FindInactive(waves)
    IN IF i = 0 THEN waves
       ELSE [waves EXCEPT ![i] =
               [active |-> TRUE,
                data |-> <<origin[1], origin[2], 200, strength>>,
                color |-> <<color[1], color[2], color[3], width>>,
                speed |-> speed, decay |-> decay]]

\* index of the key in the Map, 0 if absent
HoldIndex(holds, note) ==
    IF \E i \in 1..Len(holds) : holds[i].note = note
    THEN CHOOSE i \in 1..Len(holds) : holds[i].note = note
    ELSE 0

HoldKeys(holds) == {holds[i].note : i \in 1..Len(holds)}

\* Map.set: an existing key keeps its place
HoldSet(holds, h) ==
    IF HoldIndex(holds, h.note) = 0 THEN Append(holds, h)
    ELSE [holds EXCEPT ![HoldIndex(holds, h.note)] = h]

\* Map.delete
HoldDelete(holds, note) ==
    LET keep == {i \in 1..Len(holds) : holds[i].note # note}
        nth(k) == CHOOSE i \in keep : Cardinality({j \in keep : j < i}) = k - 1
    IN [k \in 1..Cardinality(keep) |-> holds[nth(k)]]

\* the musical statistics of onSolarNoteOn (vel in FP, t = performance.now())
SolarStats(state, midiNote, vel, t) ==
    LET dt == Max(1, t - state.lastNoteTs)
        rateBoost == clamp((300 * FP) \div dt, 0, 2 * FP)
        instantEnergy == (vel * (FP + rateBoost)) \div FP
        prevMean == state.emaPitch
        newMean == prevMean + (midiNote * FP - prevMean) \div 4
        d1 == (midiNote * FP - prevMean) \div 100
        d2 == (midiNote * FP - newMean) \div 100
        newVar == (3 * (state.emaPitchVar + (d1 * d2) \div 4)) \div 4
    IN [state EXCEPT !.lastNoteTs = t,
                     !.emaEnergy = lerp(state.emaEnergy, instantEnergy, 3500),
                     !.emaPitch = newMean,
                     !.emaPitchVar = newVar]

\* onSolarNoteOn that registers the hold only when the immediate wave found
\* a free slot
onSolarNoteOnIfSpawned(layer, midiNote, velocity0to127, t, r) ==
    LET vel == (clamp(velocity0to127, 0, 127) * FP) \div 127
        origin == noteToDiskXY(midiNote)
        tint == noteToColor(midiNote)
        spawned == FindInactive(layer.waves) # 0
        f == spawnFlare(layer.flares, origin[1], origin[2],
                        800 + (22 * vel) \div 100, 12000 + (14 * vel) \div 10, r)
        w == spawnWave(layer.waves, origin, tint, 4500 + (45 * vel) \div 100,
                       4500 + (35 * vel) \div 100, 200 + (5 * vel) \div 100,
                       5500 + (35 * vel) \div 100)
    IN [layer |->
          [layer EXCEPT
             !.flares = f.pool,
             !.waves = w,
             !.state = SolarStats([layer.state EXCEPT
                                     !.activeNotes = @ \cup {midiNote},
                                     !.holds = IF spawned
                                               THEN HoldSet(@, [note |-> midiNote,
                                                      startMs |-> t, lastSpawnMs |-> t,
                                                      origin |-> origin, color |-> tint])
                                               ELSE @],
                                  midiNote, vel, t),
             !.u_flareBoost = Min(FP, layer.u_flareBoost + (vel * 7) \div 10)],
        rng |-> f.rng]

\* the layer and the random stream after onSolarNoteOn at time t
onSolarNoteOn(layer, midiNote, velocity0to127, t, r) ==
    LET vel == (clamp(velocity0to127, 0, 127) * FP) \div 127
        origin == noteToDiskXY(midiNote)
        tint == noteToColor(midiNote)
        f == spawnFlare(layer.flares, origin[1], origin[2],
                        800 + (22 * vel) \div 100, 12000 + (14 * vel) \div 10, r)
        w == spawnWave(layer.waves, origin, tint, 4500 + (45 * vel) \div 100,
                       4500 + (35 * vel) \div 100, 200 + (5 * vel) \div 100,
                       5500 + (35 * vel) \div 100)
    IN [layer |->
          [layer EXCEPT
             !.flares = f.pool,
             !.waves = w,
             !.state = SolarStats([layer.state EXCEPT
                                     !.activeNotes = @ \cup {midiNote},
                                     !.holds = HoldSet(@, [note |-> midiNote,
                                         startMs |-> t, lastSpawnMs |-> t,
                                         origin |-> origin, color |-> tint])],
                                  midiNote, vel, t),
             !.u_flareBoost = Min(FP, layer.u_flareBoost + (vel * 7) \div 10)],
        rng |-> f.rng]

\* the final burst with a strength that ignores the hold time
ReleaseWaveFlat(waves, hold, t) ==
    spawnWave(waves, hold.origin, hold.color, 5000, 5500, 300, 6000)

\* the final burst of onSolarNoteOff for a hold released at time t
ReleaseWave(waves, hold, t) ==
    LET held == t - hold.startMs
        boost == clamp((Min(held, 2500) * FP) \div 2500, 0, FP)
    IN spawnWave(waves, hold.origin, hold.color, 5000 + (8 * boost) \div 10,
                 5500 + (5 * boost) \div 10, 300 + (6 * boost) \div 100,
                 6000 + (4 * boost) \div 10)

\* onSolarNoteOff that forgets the hold only when the final burst found a
\* free wave slot
onSolarNoteOffIfSpawned(layer, midiNote, t) ==
    LET k == HoldIndex(layer.state.holds, midiNote)
        spawned == k # 0 /\ FindInactive(layer.waves) # 0
    IN [layer EXCEPT
          !.waves = IF k = 0 THEN @ ELSE ReleaseWave(@, layer.state.holds[k], t),
          !.state.holds = IF spawned THEN HoldDelete(@, midiNote) ELSE @,
          !.state.activeNotes = IF k = 0 \/ spawned THEN @ \ {midiNote} ELSE @]

\* onSolarNoteOff that forgets the hold and leaves the note in activeNotes
onSolarNoteOffKeepActive(layer, midiNote, t) ==
    LET k == HoldIndex(layer.state.holds, midiNote)
    IN [layer EXCEPT
          !.waves = IF k = 0 THEN @ ELSE ReleaseWave(@, layer.state.holds[k], t),
          !.state.holds = IF k = 0 THEN @ ELSE HoldDelete(@, midiNote)]

onSolarNoteOff(layer, midiNote, t) ==
    LET k == HoldIndex(layer.state.holds, midiNote)
    IN [layer EXCEPT
          !.waves = IF k = 0 THEN @ ELSE ReleaseWave(@, layer.state.holds[k], t),
          !.state.holds = IF k = 0 THEN @ ELSE HoldDelete(@, midiNote),
          !.state.activeNotes = @ \ {midiNote}]

\* the factor without its clamp to [0, 1]
RepeatFactorUnclamped(heldMs) == (heldMs * FP) \div 3000

\* a factor that does not grow with the hold
RepeatFactorFlat(heldMs) == 0

\* factor = clamp(held / 3.0, 0, 1) for a hold of heldMs milliseconds
RepeatFactor(heldMs) == clamp((heldMs * FP) \div 3000, 0, FP)

\* repeatMs * (1.0 - 0.6 * factor), in milliseconds times FP
RepeatInterval(heldMs) == repeatMs * (FP - (6 * RepeatFactor(heldMs)) \div 10)

\* whether the hold emitter fires for hold h at time t
HoldFires(h, t) == (t - h.lastSpawnMs) * FP >= RepeatInterval(t - h.startMs)

\* the wave the hold emitter spawns for hold h at time t
HoldWave(waves, h, t) ==
    LET factor == RepeatFactor(t - h.startMs)
    IN spawnWave(waves, h.origin, h.color, 3500 + (5 * factor) \div 10,
                 4500 + (5 * factor) \div 10, 250 + (6 * factor) \div 100,
                 5500 + (4 * factor) \div 10)

RECURSIVE HoldLoop(_, _, _, _)
\* holds.forEach of updateSolar from entry k on: the holds and the waves
HoldLoop(holds, waves, k, t) ==
    IF k > Len(holds) THEN [holds |-> holds, waves |-> waves]
    ELSE IF HoldFires(holds[k], t)
         THEN HoldLoop([holds EXCEPT ![k].lastSpawnMs = t],
                       HoldWave(waves, holds[k], t), k + 1, t)
         ELSE HoldLoop(holds, waves, k + 1, t)

\* the mapping of updateSolar with the brightness written as computed
SolarMappingUnclamped(state) ==
    LET energy == state.emaEnergy
        highness == clamp((state.emaPitch - 48 * FP) \div 36, 0, FP)
        spreadN == clamp((Isqrt(Max(0, state.emaPitchVar)) * 100) \div 8, 0, FP)
        poly == clamp((Cardinality(state.activeNotes) * FP) \div 6, 0, FP)
        e2 == clamp(energy \div 2, 0, FP)
        dir == IF 2 * highness < FP THEN -1 ELSE 1
    IN [rotSpeed |-> dir * (200 + (20 * e2) \div 100 + (10 * spreadN) \div 100),
        u_params |->
          <<1800 + (6 * (energy \div 2)) \div 10 + (12 * poly) \div 100,
            clamp(2200 + (70 * highness) \div 100, 0, FP),
            clamp(2200 + (65 * ((6 * spreadN) \div 10 + (4 * e2) \div 10)) \div 100,
                  0, FP),
            clamp(1800 + (70 * e2) \div 100 + (12 * poly) \div 100, 0, FP)>>,
        u_color |->
          <<clamp(5500 + (35 * (FP - highness)) \div 100, 0, FP),
            clamp(1500 + (85 * ((6 * highness) \div 10 + (4 * e2) \div 10)) \div 100,
                  0, FP)>>]

\* the music-to-visual mapping of updateSolar: rotSpeed, u_params, u_color
SolarMapping(state) ==
    LET energy == state.emaEnergy
        highness == clamp((state.emaPitch - 48 * FP) \div 36, 0, FP)
        spreadN == clamp((Isqrt(Max(0, state.emaPitchVar)) * 100) \div 8, 0, FP)
        poly == clamp((Cardinality(state.activeNotes) * FP) \div 6, 0, FP)
        e2 == clamp(energy \div 2, 0, FP)
        dir == IF 2 * highness < FP THEN -1 ELSE 1
    IN [rotSpeed |-> dir * (200 + (20 * e2) \div 100 + (10 * spreadN) \div 100),
        u_params |->
          <<clamp(1800 + (6 * (energy \div 2)) \div 10 + (12 * poly) \div 100, 0, FP),
            clamp(2200 + (70 * highness) \div 100, 0, FP),
            clamp(2200 + (65 * ((6 * spreadN) \div 10 + (4 * e2) \div 10)) \div 100,
                  0, FP),
            clamp(1800 + (70 * e2) \div 100 + (12 * poly) \div 100, 0, FP)>>,
        u_color |->
          <<clamp(5500 + (35 * (FP - highness)) \div 100, 0, FP),
            clamp(1500 + (85 * ((6 * highness) \div 10 + (4 * e2) \div 10)) \div 100,
                  0, FP)>>]

\* the flare loop with the age running backwards
FlareStepRewind(f, dt) ==
    LET vx == (f.velocity[1] * 985) \div 1000
        vy == (f.velocity[2] * 985) \div 1000
        x == f.data[1] + (vx * dt) \div 1000
        y == f.data[2] + (vy * dt) \div 1000
        age == f.data[4] - (f.velocity[4] * dt) \div 1000
    IN [f EXCEPT !.velocity = <<vx, vy, f.velocity[3], f.velocity[4]>>,
                 !.data = <<x, y, IF age >= FP THEN 0 ELSE f.data[3], age>>,
                 !.active = (age < FP)]

\* the flare loop with the age left as it is
FlareStepNoAge(f, dt) ==
    LET vx == (f.velocity[1] * 985) \div 1000
        vy == (f.velocity[2] * 985) \div 1000
        x == f.data[1] + (vx * dt) \div 1000
        y == f.data[2] + (vy * dt) \div 1000
        age == f.data[4]
    IN [f EXCEPT !.velocity = <<vx, vy, f.velocity[3], f.velocity[4]>>,
                 !.data = <<x, y, IF age >= FP THEN 0 ELSE f.data[3], age>>,
                 !.active = (age < FP)]

\* one iteration of the flare loop for an active flare, dt in ms
FlareStep(f, dt) ==
    LET vx == (f.velocity[1] * 985) \div 1000
        vy == (f.velocity[2] * 985) \div 1000
        x == f.data[1] + (vx * dt) \div 1000
        y == f.data[2] + (vy * dt) \div 1000
        age == f.data[4] + (f.velocity[4] * dt) \div 1000
    IN [f EXCEPT !.velocity = <<vx, vy, f.velocity[3], f.velocity[4]>>,
                 !.data = <<x, y, IF age >= FP THEN 0 ELSE f.data[3], age>>,
                 !.active = (age < FP)]

\* WaveStep that lets a wave go on growing past radius 2.0
WaveStepNoRadius(w, dt) ==
    LET radius == w.data[3] + (w.speed * dt) \div 1000
        width == Min(1200, w.color[4] + dt \div 5)
        strength == (w.data[4] * ExpNeg((w.decay * dt) \div 1000)) \div FP
        dead == strength < 200
    IN [w EXCEPT !.data = <<w.data[1], w.data[2], radius,
                            IF dead THEN 0 ELSE strength>>,
                 !.color = [w.color EXCEPT ![4] = width],
                 !.active = ~dead]

\* one iteration of the wave loop for an active wave, dt in ms
WaveStep(w, dt) ==
    LET radius == w.data[3] + (w.speed * dt) \div 1000
        width == Min(1200, w.color[4] + dt \div 5)
        strength == (w.data[4] * ExpNeg((w.decay * dt) \div 1000)) \div FP
        dead == strength < 200 \/ radius > 20000
    IN [w EXCEPT !.data = <<w.data[1], w.data[2], radius,
                            IF dead THEN 0 ELSE strength>>,
                 !.color = [w.color EXCEPT ![4] = width],
                 !.active = ~dead]

\* updateSolar at time t = performance.now()
updateSolar(layer, dtMs, t) ==
    LET dt == DeltaSeconds(dtMs)
        e == HoldLoop(layer.state.holds, layer.waves, 1, t)
        m == SolarMapping(layer.state)
        nf == Len(layer.flares)
        nw == Len(e.waves)
        flares == [i \in 1..nf |->
                     IF layer.flares[i].active THEN FlareStep(layer.flares[i], dt)
                     ELSE layer.flares[i]]
        waves == [i \in 1..nw |->
                    IF e.waves[i].active THEN WaveStep(e.waves[i], dt)
                    ELSE e.waves[i]]
    IN [layer EXCEPT
          !.u_time = t,
          !.state.holds = e.holds,
          !.state.rotSpeed = m.rotSpeed,
          !.u_params = m.u_params,
          !.u_color = m.u_color,
          !.u_rotation = @ + (m.rotSpeed * dt) \div 1000,
          !.u_flareBoost = Max(0, @ - (7 * dt) \div 2),
          !.flares = flares,
          !.u_flares = [i \in 1..Len(layer.u_flares) |->
                          IF i > nf THEN layer.u_flares[i]
                          ELSE IF layer.flares[i].active THEN flares[i].data
                          ELSE [layer.u_flares[i] EXCEPT ![3] = 0]],
          !.waves = waves,
          !.u_waves = [i \in 1..Len(layer.u_waves) |->
                         IF i > nw THEN layer.u_waves[i]
                         ELSE IF e.waves[i].active THEN waves[i].data
                         ELSE [layer.u_waves[i] EXCEPT ![4] = 0]],
          !.u_waveColor = [i \in 1..Len(layer.u_waveColor) |->
                             IF i <= nw /\ e.waves[i].active THEN waves[i].color
                             ELSE layer.u_waveColor[i]]]

\* -------------------------------------------------------- waves and water
\* Ripple: x, y, strength in FP, birth in ms, hue; u_ripples records are
\* (x, y or hue, strength, birth).  The uniform array is two records longer
\* than the ripple limit (32 and 30 in the source).
RippleUniforms == MAX_RIPPLES + 2

createWavesLayer ==
    [ u_time |-> 0,
      u_resolution |-> InitialSize,
      visible |-> TRUE,
      u_ripples |-> [i \in 1..RippleUniforms |-> Vector4],
      u_ripple_count |-> 0,
      ripples |-> <<>> ]

createWaterLayer == createWavesLayer

\* addWaveRipple without the shift of the oldest ripple
addWaveRippleNoShift(layer, xNorm, vel, t, r) ==
    [layer EXCEPT !.ripples =
       Append(layer.ripples, [x |-> xNorm,
                              y |-> 5000 + (NextRand(r) - 500) * 5,
                              strength |-> (vel * 15) \div 12700,
                              birth |-> t, hue |-> 0])]

\* addWaveRipple with pop in place of shift: the newest ripple goes
addWaveRipplePop(layer, xNorm, vel, t, r) ==
    LET kept == IF Len(layer.ripples) >= MAX_RIPPLES
                THEN SubSeq(layer.ripples, 1, Len(layer.ripples) - 1)
                ELSE layer.ripples
    IN [layer EXCEPT !.ripples =
          Append(kept, [x |-> xNorm,
                        y |-> 5000 + (NextRand(r) - 500) * 5,
                        strength |-> (vel * 15) \div 12700,
                        birth |-> t, hue |-> 0])]

\* addWaveRipple at time t; vel is the velocity times FP; one draw
addWaveRipple(layer, xNorm, vel, t, r) ==
    LET kept == IF Len(layer.ripples) >= MAX_RIPPLES THEN Tail(layer.ripples)
                ELSE layer.ripples
    IN [layer EXCEPT !.ripples =
          Append(kept, [x |-> xNorm,
                        y |-> 5000 + (NextRand(r) - 500) * 5,
                        strength |-> (vel * 15) \div 12700,
                        birth |-> t, hue |-> 0])]

onWaveNoteOn(layer, xNorm, vel, t, r) == addWaveRipple(layer, xNorm, vel * FP, t, r)

onWaveNoteOff(layer, xNorm, vel, heldMs, t, r) ==
    LET strength == Min(127 * FP, vel * FP + Min(100 * FP, (heldMs * FP) \div 15))
    IN addWaveRipple(layer, xNorm, (strength * 3) \div 2, t, r)

\* index of the first ripple with the smallest birth
OldestRipple(ripples) ==
    CHOOSE i \in 1..Len(ripples) :
        /\ \A j \in 1..Len(ripples) : ripples[i].birth <= ripples[j].birth
        /\ \A j \in 1..(i - 1) : ripples[j].birth > ripples[i].birth

\* ripples.splice(k, 1)
Splice(ripples, k) ==
    [i \in 1..(Len(ripples) - 1) |-> IF i < k THEN ripples[i] ELSE ripples[i + 1]]

\* addWaterRipple pushing without removing the oldest ripple at the limit
addWaterRippleNoSplice(layer, xNorm, vel, hue, t) ==
    [layer EXCEPT !.ripples =
       Append(layer.ripples, [x |-> xNorm, y |-> 5000,
                              strength |-> (vel * 5) \div 1270 + 1000,
                              birth |-> t, hue |-> hue])]

\* addWaterRipple at time t; vel is the velocity times FP, hue in FP
addWaterRipple(layer, xNorm, vel, hue, t) ==
    LET kept == IF Len(layer.ripples) >= MAX_RIPPLES
                THEN Splice(layer.ripples, OldestRipple(layer.ripples))
                ELSE layer.ripples
    IN [layer EXCEPT !.ripples =
          Append(kept, [x |-> xNorm, y |-> 5000,
                        strength |-> (vel * 5) \div 1270 + 1000,
                        birth |-> t, hue |-> hue])]

onWaterNoteOn(layer, xNorm, vel, hue, t) ==
    addWaterRipple(layer, xNorm, vel * FP, hue * FP, t)

\* one draw, for the hue
onWaterNoteOff(layer, xNorm, vel, heldMs, t, r) ==
    LET strength == Min(127 * FP, vel * FP + Min(80 * FP, (heldMs * FP) \div 20))
    IN addWaterRipple(layer, xNorm, (strength * 12) \div 10, NextRand(r) * 10, t)

\* ripples.filter(r => now - r.birth < maxAge)
Cull(ripples, t, maxAgeMs) ==
    LET keep == {i \in 1..Len(ripples) : t - ripples[i].birth < maxAgeMs}
        nth(k) == CHOOSE i \in keep : Cardinality({j \in keep : j < i}) = k - 1
    IN [k \in 1..Cardinality(keep) |-> ripples[nth(k)]]

\* updateWaves publishing the ripple count it found before the cull
updateWavesStaleCount(layer, dt, t) ==
    LET ripples == Cull(layer.ripples, t, 8000)
        numRipples == Min(Len(ripples), Len(layer.u_ripples))
    IN [layer EXCEPT
          !.u_time = t,
          !.ripples = ripples,
          !.u_ripple_count = Min(Len(layer.ripples), Len(layer.u_ripples)),
          !.u_ripples = [i \in 1..Len(layer.u_ripples) |->
                           IF i <= numRipples
                           THEN <<ripples[i].x, ripples[i].y, ripples[i].strength,
                                  ripples[i].birth>>
                           ELSE layer.u_ripples[i]]]

updateWaves(layer, dt, t) ==
    LET ripples == Cull(layer.ripples, t, 8000)
        numRipples == Min(Len(ripples), Len(layer.u_ripples))
    IN [layer EXCEPT
          !.u_time = t,
          !.ripples = ripples,
          !.u_ripple_count = numRipples,
          !.u_ripples = [i \in 1..Len(layer.u_ripples) |->
                           IF i <= numRipples
                           THEN <<ripples[i].x, ripples[i].y, ripples[i].strength,
                                  ripples[i].birth>>
                           ELSE layer.u_ripples[i]]]

updateWater(layer, dt, t) ==
    LET ripples == Cull(layer.ripples, t, 7000)
        numRipples == Min(Len(ripples), Len(layer.u_ripples))
    IN [layer EXCEPT
          !.u_time = t,
          !.ripples = ripples,
          !.u_ripple_count = numRipples,
          !.u_ripples = [i \in 1..Len(layer.u_ripples) |->
                           IF i <= numRipples
                           THEN <<ripples[i].x, ripples[i].hue, ripples[i].strength,
                                  ripples[i].birth>>
                           ELSE layer.u_ripples[i]]]

\* ------------------------------------------------- visibility and size
\* the mode effect rebuilding the layer it is applied to
setVisibleRecreate(l, mode, name) ==
    [(CASE name = "bubbles" -> createBubblesLayer
        [] name = "waves" -> createWavesLayer
        [] name = "plasma" -> createPlasmaLayer
        [] name = "trees" -> createTreesLayer
        [] name = "solar" -> createSolarLayer(0)
        [] OTHER -> createWaterLayer) EXCEPT !.visible = (mode = name)]

\* layer.mesh.visible = mode === name
setVisible(l, mode, name) == [l EXCEPT !.visible = (mode = name)]

\* layer.uniforms.u_resolution.value.set(newW, newH) of handleResize
setResolution(l, w, h) == [l EXCEPT !.u_resolution = <<w, h>>]

\* resizeSolar rebuilding the layer at the new size
resizeSolarRecreate(layer, w, h) ==
    [createSolarLayer(0) EXCEPT !.u_resolution = <<w, h>>,
                                !.visible = layer.visible]

resizeSolar(layer, w, h) == [layer EXCEPT !.u_resolution = <<w, h>>]

\* ------------------------------------------------------------------ state
VARIABLES
    layer,          \* the layer the calls of this run go to
    now,            \* performance.now(), ms
    rng,            \* state of the Math.random() stream
    frames,         \* update calls made so far
    notes,          \* note events delivered so far
    lastOp,         \* the last call: its name, arguments and what it found
    hold,           \* the scenario of the run, if it has one: plan and counts
    bubblesLayer,
    wavesLayer,
    plasmaLayer,
    treesLayer,
    solarLayer,
    waterLayer,
    midi            \* useMidi: MIDI access, the attached handler, notesRef

layerVars == <<bubblesLayer, wavesLayer, plasmaLayer, treesLayer, solarLayer,
               waterLayer>>

vars == <<layer, now, rng, frames, notes, lastOp, hold, layerVars, midi>>

\* lastOp: op is the function called; free and free2 count the inactive
\* slots it found (solar: flares and waves); held tells whether the note of
\* a solar note-off had a hold
NoOp == [op |-> "create", note |-> 0, vel |-> 0, dt |-> 0, heldMs |-> 0,
         free |-> 0, free2 |-> 0, held |-> FALSE]

NoHold == [T |-> 0, period |-> 0, lead |-> 0, phase |-> "none", first |-> 0,
           second |-> 0, switches |-> 0, resizes |-> 0, other |-> "none"]

\* useMidi before any render effect: no MIDI access, no handler attached to
\* an input, notesRef empty, no initMidi call waiting for the browser.
\* attached and the entries of pending name the mode that the onNoteOn and
\* onNoteOff of a render closed over.
NoMidi == [access |-> FALSE, attached |-> "none", pending |-> {}, notesRef |-> {}]

\* the layers as WebGLMidiVisualizer creates them at time t, after the
\* effect that shows the layer of the mode and hides the others
CreateLayers(t) ==
    /\ bubblesLayer = setVisible(createBubblesLayer, layer, "bubbles")
    /\ wavesLayer = setVisible(createWavesLayer, layer, "waves")
    /\ plasmaLayer = setVisible(createPlasmaLayer, layer, "plasma")
    /\ treesLayer = setVisible(createTreesLayer, layer, "trees")
    /\ solarLayer = setVisible(createSolarLayer(t), layer, "solar")
    /\ waterLayer = setVisible(createWaterLayer, layer, "water")

Init ==
    /\ layer \in Layers
    /\ now = 0
    /\ rng \in Seeds
    /\ frames = 0
    /\ notes = 0
    /\ lastOp = NoOp
    /\ midi = NoMidi
    /\ hold = NoHold
    /\ CreateLayers(0)

\* the steps a run with mode changes has taken, and whether it may go on
UiSteps == notes + frames + hold.switches + hold.resizes
UiBudget ==
    /\ hold.phase = "ui" => UiSteps < MaxUiSteps
    /\ hold.phase = "slots" => UiSteps < MaxSlotSteps

NoteGuard ==
    /\ UiBudget
    /\ hold.phase # "slots" => (notes < MaxNotes /\ frames <= BurstFrames)

\* Frames per run.  The waves and water layers age their ripples by the
\* clock alone, so a long run of short frames shows nothing more of them.
FrameLimit ==
    IF hold.phase = "ui"
    THEN (IF UiSteps < MaxUiSteps THEN BurstFrames + 1 ELSE 0)
    ELSE IF hold.phase = "slots"
    THEN (IF UiSteps < MaxSlotSteps THEN MaxSlotSteps ELSE 0)
    ELSE IF hold.phase = "midi" THEN MaxMidiFrames
    ELSE IF layer \in {"waves", "water"} THEN MaxFrames \div 8
    ELSE MaxFrames

\* The deltas a frame may bring: any of DeltaSet at first, a steady rate
\* afterwards, which for the clock-aged ripples of waves and water is one
\* frame every 4 seconds, so that ripples drawn in one frame are culled in
\* a later one.
FrameDeltas ==
    IF frames < BurstFrames \/ hold.phase = "slots" THEN DeltaSet
    ELSE IF layer \in {"waves", "water"} THEN {80 * MAX_STEP_MS}
    ELSE {MAX_STEP_MS}

\* ---------------------------------------------------------------- bubbles
BubbleNoteOn ==
    /\ layer = "bubbles" /\ NoteGuard
    /\ \E nv \in NoteInputs :
         /\ bubblesLayer' = onBubbleNoteOn(bubblesLayer, nv[2], noteToHue(nv[1]), rng)
         /\ lastOp' = [NoOp EXCEPT !.op = "onBubbleNoteOn", !.note = nv[1],
                         !.vel = nv[2],
                         !.free = Len(bubblesLayer.bubbles)
                                    - ActiveCount(bubblesLayer.bubbles)]
    /\ rng' = RandN(rng, 4)
    /\ notes' = notes + 1
    /\ UNCHANGED <<midi, layer, now, frames, hold, wavesLayer, plasmaLayer, treesLayer,
                   solarLayer, waterLayer>>

BubbleNoteOff ==
    /\ layer = "bubbles" /\ NoteGuard
    /\ \E nv \in NoteInputs :
         /\ bubblesLayer' = onBubbleNoteOff(bubblesLayer, nv[2], noteToHue(nv[1]))
         /\ lastOp' = [NoOp EXCEPT !.op = "onBubbleNoteOff", !.note = nv[1],
                         !.vel = nv[2]]
    /\ notes' = notes + 1
    /\ UNCHANGED <<midi, layer, now, rng, frames, hold, wavesLayer, plasmaLayer,
                   treesLayer, solarLayer, waterLayer>>

\* a frame of the bubbles layer: animate stores the time, then updates
BubbleFrame ==
    /\ bubblesLayer.visible /\ frames < FrameLimit
    /\ \E dt \in FrameDeltas :
         /\ now' = now + dt
         /\ bubblesLayer' = updateBubbles([bubblesLayer EXCEPT !.u_time = now + dt], dt)
         /\ lastOp' = [NoOp EXCEPT !.op = "updateBubbles", !.dt = dt]
    /\ frames' = frames + 1
    /\ UNCHANGED <<midi, layer, rng, notes, hold, wavesLayer, plasmaLayer, treesLayer,
                   solarLayer, waterLayer>>

\* ----------------------------------------------------------------- plasma
PlasmaNoteOn ==
    /\ layer = "plasma" /\ NoteGuard
    /\ \E nv \in NoteInputs :
         LET a == onPlasmaNoteOn(plasmaLayer, noteToX(nv[1]), nv[2], rng)
         IN /\ plasmaLayer' = a.layer
            /\ rng' = a.rng
            /\ lastOp' = [NoOp EXCEPT !.op = "onPlasmaNoteOn", !.note = nv[1],
                            !.vel = nv[2],
                            !.free = Len(plasmaLayer.particles)
                                       - ActiveCount(plasmaLayer.particles)]
    /\ notes' = notes + 1
    /\ UNCHANGED <<midi, layer, now, frames, hold, bubblesLayer, wavesLayer, treesLayer,
                   solarLayer, waterLayer>>

PlasmaNoteOff ==
    /\ layer = "plasma" /\ NoteGuard
    /\ \E nv \in NoteInputs, heldMs \in HeldInputs :
         LET a == onPlasmaNoteOff(plasmaLayer, noteToX(nv[1]), nv[2], heldMs, rng)
         IN /\ plasmaLayer' = a.layer
            /\ rng' = a.rng
            /\ lastOp' = [NoOp EXCEPT !.op = "onPlasmaNoteOff", !.note = nv[1],
                            !.vel = nv[2], !.heldMs = heldMs,
                            !.free = Len(plasmaLayer.particles)
                                       - ActiveCount(plasmaLayer.particles)]
    /\ notes' = notes + 1
    /\ UNCHANGED <<midi, layer, now, frames, hold, bubblesLayer, wavesLayer, treesLayer,
                   solarLayer, waterLayer>>

PlasmaFrame ==
    /\ plasmaLayer.visible /\ frames < FrameLimit
    /\ \E dt \in FrameDeltas :
         LET a == updatePlasma(plasmaLayer, dt, now + dt, rng)
         IN /\ now' = now + dt
            /\ plasmaLayer' = a.layer
            /\ rng' = a.rng
            /\ lastOp' = [NoOp EXCEPT !.op = "updatePlasma", !.dt = dt]
    /\ frames' = frames + 1
    /\ UNCHANGED <<midi, layer, notes, hold, bubblesLayer, wavesLayer, treesLayer,
                   solarLayer, waterLayer>>

\* ------------------------------------------------------------------ trees
TreeNoteOn ==
    /\ layer = "trees" /\ NoteGuard
    /\ \E nv \in NoteInputs :
         /\ treesLayer' = onTreeNoteOn(treesLayer, nv[1], nv[2], NoteColor(nv[1]), rng)
         /\ lastOp' = [NoOp EXCEPT !.op = "onTreeNoteOn", !.note = nv[1],
                         !.vel = nv[2],
                         !.free = Len(treesLayer.seeds) - ActiveCount(treesLayer.seeds)]
    /\ rng' = NextRand(rng)
    /\ notes' = notes + 1
    /\ UNCHANGED <<midi, layer, now, frames, hold, bubblesLayer, wavesLayer, plasmaLayer,
                   solarLayer, waterLayer>>

TreeNoteOff ==
    /\ layer = "trees" /\ NoteGuard
    /\ \E nv \in NoteInputs, heldMs \in HeldInputs :
         /\ treesLayer' = onTreeNoteOff(treesLayer, nv[1], nv[2], heldMs)
         /\ lastOp' = [NoOp EXCEPT !.op = "onTreeNoteOff", !.note = nv[1],
                         !.vel = nv[2], !.heldMs = heldMs]
    /\ notes' = notes + 1
    /\ UNCHANGED <<midi, layer, now, rng, frames, hold, bubblesLayer, wavesLayer,
                   plasmaLayer, solarLayer, waterLayer>>

TreeFrame ==
    /\ treesLayer.visible /\ frames < FrameLimit
    /\ \E dt \in FrameDeltas :
         /\ now' = now + dt
         /\ treesLayer' = updateTrees(treesLayer, dt, now + dt)
         /\ lastOp' = [NoOp EXCEPT !.op = "updateTrees", !.dt = dt]
    /\ frames' = frames + 1
    /\ UNCHANGED <<midi, layer, rng, notes, hold, bubblesLayer, wavesLayer, plasmaLayer,
                   solarLayer, waterLayer>>

\* ------------------------------------------------------------------ solar
SolarNoteOn ==
    /\ layer = "solar" /\ NoteGuard
    /\ \E nv \in NoteInputs :
         LET a == onSolarNoteOn(solarLayer, nv[1], nv[2], now, rng)
         IN /\ solarLayer' = a.layer
            /\ rng' = a.rng
            /\ lastOp' = [NoOp EXCEPT !.op = "onSolarNoteOn", !.note = nv[1],
                            !.vel = nv[2],
                            !.free = Len(solarLayer.flares)
                                       - ActiveCount(solarLayer.flares),
                            !.free2 = Len(solarLayer.waves)
                                        - ActiveCount(solarLayer.waves),
                            !.held = nv[1] \in HoldKeys(solarLayer.state.holds)]
    /\ notes' = notes + 1
    /\ UNCHANGED <<midi, layer, now, frames, hold, bubblesLayer, wavesLayer, plasmaLayer,
                   treesLayer, waterLayer>>

SolarNoteOff ==
    /\ layer = "solar" /\ NoteGuard
    /\ \E nv \in NoteInputs :
         /\ solarLayer' = onSolarNoteOff(solarLayer, nv[1], now)
         /\ lastOp' = [NoOp EXCEPT !.op = "onSolarNoteOff", !.note = nv[1],
                         !.free = Len(solarLayer.flares)
                                    - ActiveCount(solarLayer.flares),
                         !.free2 = Len(solarLayer.waves)
                                     - ActiveCount(solarLayer.waves),
                         !.held = nv[1] \in HoldKeys(solarLayer.state.holds)]
    /\ notes' = notes + 1
    /\ UNCHANGED <<midi, layer, now, rng, frames, hold, bubblesLayer, wavesLayer,
                   plasmaLayer, treesLayer, waterLayer>>

\* animate's timeSeconds = time / 1000, to the millisecond grid of the model
timeSeconds(time) == time \div 1000

\* animate hands updateSolar timeSeconds where the other layers get dt
SolarFrame ==
    /\ solarLayer.visible /\ frames < FrameLimit
    /\ \E dt \in FrameDeltas :
         /\ now' = now + dt
         /\ solarLayer' = updateSolar(solarLayer, timeSeconds(now + dt), now + dt)
         /\ lastOp' = [NoOp EXCEPT !.op = "updateSolar",
                         !.dt = timeSeconds(now + dt),
                         !.free = Len(solarLayer.flares)
                                    - ActiveCount(solarLayer.flares),
                         !.free2 = Len(solarLayer.waves)
                                     - ActiveCount(solarLayer.waves)]
    /\ frames' = frames + 1
    /\ UNCHANGED <<midi, layer, rng, notes, hold, bubblesLayer, wavesLayer, plasmaLayer,
                   treesLayer, waterLayer>>

\* ------------------------------------------------------------------ waves
WaveNoteOn ==
    /\ layer = "waves" /\ NoteGuard
    /\ \E nv \in NoteInputs :
         /\ wavesLayer' = onWaveNoteOn(wavesLayer, noteToX(nv[1]), nv[2], now, rng)
         /\ lastOp' = [NoOp EXCEPT !.op = "onWaveNoteOn", !.note = nv[1],
                         !.vel = nv[2],
                         !.free = MAX_RIPPLES - Len(wavesLayer.ripples)]
    /\ rng' = NextRand(rng)
    /\ notes' = notes + 1
    /\ UNCHANGED <<midi, layer, now, frames, hold, bubblesLayer, plasmaLayer, treesLayer,
                   solarLayer, waterLayer>>

WaveNoteOff ==
    /\ layer = "waves" /\ NoteGuard
    /\ \E nv \in NoteInputs, heldMs \in HeldInputs :
         /\ wavesLayer' = onWaveNoteOff(wavesLayer, noteToX(nv[1]), nv[2], heldMs,
                                        now, rng)
         /\ lastOp' = [NoOp EXCEPT !.op = "onWaveNoteOff", !.note = nv[1],
                         !.vel = nv[2], !.heldMs = heldMs,
                         !.free = MAX_RIPPLES - Len(wavesLayer.ripples)]
    /\ rng' = NextRand(rng)
    /\ notes' = notes + 1
    /\ UNCHANGED <<midi, layer, now, frames, hold, bubblesLayer, plasmaLayer, treesLayer,
                   solarLayer, waterLayer>>

WaveFrame ==
    /\ wavesLayer.visible /\ frames < FrameLimit
    /\ \E dt \in FrameDeltas :
         /\ now' = now + dt
         /\ wavesLayer' = updateWaves(wavesLayer, dt, now + dt)
         /\ lastOp' = [NoOp EXCEPT !.op = "updateWaves", !.dt = dt]
    /\ frames' = frames + 1
    /\ UNCHANGED <<midi, layer, rng, notes, hold, bubblesLayer, plasmaLayer, treesLayer,
                   solarLayer, waterLayer>>

\* ------------------------------------------------------------------ water
WaterNoteOn ==
    /\ layer = "water" /\ NoteGuard
    /\ \E nv \in NoteInputs :
         /\ waterLayer' = onWaterNoteOn(waterLayer, noteToX(nv[1]), nv[2],
                                        noteToHue(nv[1]), now)
         /\ lastOp' = [NoOp EXCEPT !.op = "onWaterNoteOn", !.note = nv[1],
                         !.vel = nv[2],
                         !.free = MAX_RIPPLES - Len(waterLayer.ripples)]
    /\ notes' = notes + 1
    /\ UNCHANGED <<midi, layer, now, rng, frames, hold, bubblesLayer, wavesLayer,
                   plasmaLayer, treesLayer, solarLayer>>

WaterNoteOff ==
    /\ layer = "water" /\ NoteGuard
    /\ \E nv \in NoteInputs, heldMs \in HeldInputs :
         /\ waterLayer' = onWaterNoteOff(waterLayer, noteToX(nv[1]), nv[2], heldMs,
                                         now, rng)
         /\ lastOp' = [NoOp EXCEPT !.op = "onWaterNoteOff", !.note = nv[1],
                         !.vel = nv[2], !.heldMs = heldMs,
                         !.free = MAX_RIPPLES - Len(waterLayer.ripples)]
    /\ rng' = NextRand(rng)
    /\ notes' = notes + 1
    /\ UNCHANGED <<midi, layer, now, frames, hold, bubblesLayer, wavesLayer, plasmaLayer,
                   treesLayer, solarLayer>>

WaterFrame ==
    /\ waterLayer.visible /\ frames < FrameLimit
    /\ \E dt \in FrameDeltas :
         /\ now' = now + dt
         /\ waterLayer' = updateWater(waterLayer, dt, now + dt)
         /\ lastOp' = [NoOp EXCEPT !.op = "updateWater", !.dt = dt]
    /\ frames' = frames + 1
    /\ UNCHANGED <<midi, layer, rng, notes, hold, bubblesLayer, wavesLayer, plasmaLayer,
                   treesLayer, solarLayer>>

\* Any sequence of note-on, note-off and update calls on one layer.
Next ==
    \/ BubbleNoteOn
    \/ BubbleNoteOff
    \/ BubbleFrame
    \/ PlasmaNoteOn
    \/ PlasmaNoteOff
    \/ PlasmaFrame
    \/ TreeNoteOn
    \/ TreeNoteOff
    \/ TreeFrame
    \/ SolarNoteOn
    \/ SolarNoteOff
    \/ SolarFrame
    \/ WaveNoteOn
    \/ WaveNoteOff
    \/ WaveFrame
    \/ WaterNoteOn
    \/ WaterNoteOff
    \/ WaterFrame

Spec == Init /\ [][Next]_vars

\* ------------------------------------------------- a sustained solar note
\* One key is pressed, held for T ms while updateSolar runs every period ms
\* (the first frame arrives lead ms after the press), and released.
HoldKey == <<69, 80>>
HoldPlans ==
    {[T |-> d, period |-> pl[1], lead |-> pl[2], phase |-> "idle",
      first |-> 0, second |-> 0, switches |-> 0, resizes |-> 0,
      other |-> "none"] :
        d \in {3000, 4000},
        pl \in {<<16, 16>>, <<33, 33>>, <<47, 47>>, <<50, 50>>, <<50, 20>>,
                <<150, 150>>, <<150, 140>>}}

InitHold ==
    /\ layer = "solar"
    /\ now = 0
    /\ rng \in Seeds
    /\ frames = 0
    /\ notes = 0
    /\ lastOp = NoOp
    /\ midi = NoMidi
    /\ hold \in HoldPlans
    /\ CreateLayers(0)

\* the number of holds the emitter of updateSolar fires for at time t
HoldFirings(holds, t) ==
    Cardinality({k \in 1..Len(holds) : HoldFires(holds[k], t)})

HoldPress ==
    /\ hold.phase = "idle"
    /\ LET a == onSolarNoteOn(solarLayer, HoldKey[1], HoldKey[2], now, rng)
       IN /\ solarLayer' = a.layer
          /\ rng' = a.rng
    /\ hold' = [hold EXCEPT !.phase = "held"]
    /\ lastOp' = [NoOp EXCEPT !.op = "onSolarNoteOn", !.note = HoldKey[1],
                    !.vel = HoldKey[2],
                    !.free = Len(solarLayer.flares) - ActiveCount(solarLayer.flares),
                    !.free2 = Len(solarLayer.waves) - ActiveCount(solarLayer.waves),
                    !.held = HoldKey[1] \in HoldKeys(solarLayer.state.holds)]
    /\ notes' = notes + 1
    /\ UNCHANGED <<midi, layer, now, frames, bubblesLayer, wavesLayer, plasmaLayer,
                   treesLayer, waterLayer>>

\* a frame while the key is down; a firing of the hold emitter counts for
\* the first half of the hold when it happens no later than T / 2
HoldFrame ==
    /\ hold.phase = "held"
    /\ LET t == now + (IF frames = 0 THEN hold.lead ELSE hold.period)
           n == HoldFirings(solarLayer.state.holds, t)
       IN /\ t <= hold.T
          /\ now' = t
          /\ solarLayer' = updateSolar(solarLayer, timeSeconds(t), t)
          /\ hold' = IF 2 * t <= hold.T
                     THEN [hold EXCEPT !.first = @ + n]
                     ELSE [hold EXCEPT !.second = @ + n]
          /\ lastOp' = [NoOp EXCEPT !.op = "updateSolar", !.dt = timeSeconds(t),
                          !.free = Len(solarLayer.flares)
                                     - ActiveCount(solarLayer.flares),
                          !.free2 = Len(solarLayer.waves)
                                      - ActiveCount(solarLayer.waves)]
    /\ frames' = frames + 1
    /\ UNCHANGED <<midi, layer, rng, notes, bubblesLayer, wavesLayer, plasmaLayer,
                   treesLayer, waterLayer>>

\* the release, T ms after the press
HoldRelease ==
    /\ hold.phase = "held"
    /\ now + (IF frames = 0 THEN hold.lead ELSE hold.period) > hold.T
    /\ now' = hold.T
    /\ solarLayer' = onSolarNoteOff(solarLayer, HoldKey[1], hold.T)
    /\ hold' = [hold EXCEPT !.phase = "released"]
    /\ lastOp' = [NoOp EXCEPT !.op = "onSolarNoteOff", !.note = HoldKey[1],
                    !.free = Len(solarLayer.flares) - ActiveCount(solarLayer.flares),
                    !.free2 = Len(solarLayer.waves) - ActiveCount(solarLayer.waves),
                    !.held = HoldKey[1] \in HoldKeys(solarLayer.state.holds)]
    /\ notes' = notes + 1
    /\ UNCHANGED <<midi, layer, rng, frames, bubblesLayer, wavesLayer, plasmaLayer,
                   treesLayer, waterLayer>>

NextHold ==
    \/ HoldPress
    \/ HoldFrame
    \/ HoldRelease

SpecHold == InitHold /\ [][NextHold]_vars

\* ------------------------------------------- solar notes of the full range
\* Note-ons over the whole MIDI range (lowest and highest key, silent and
\* full velocity), in bursts within one millisecond or frames apart.
MaxStatNotes == 5
StatInputs == {<<0, 127>>, <<127, 127>>, <<64, 0>>}

InitStats ==
    /\ layer = "solar"
    /\ now = 0
    /\ rng \in Seeds
    /\ frames = 0
    /\ notes = 0
    /\ lastOp = NoOp
    /\ midi = NoMidi
    /\ hold = NoHold
    /\ CreateLayers(0)

StatsNoteOn ==
    /\ notes < MaxStatNotes
    /\ \E nv \in StatInputs :
         LET a == onSolarNoteOn(solarLayer, nv[1], nv[2], now, rng)
         IN /\ solarLayer' = a.layer
            /\ rng' = a.rng
            /\ lastOp' = [NoOp EXCEPT !.op = "onSolarNoteOn", !.note = nv[1],
                            !.vel = nv[2],
                            !.free = Len(solarLayer.flares)
                                       - ActiveCount(solarLayer.flares),
                            !.free2 = Len(solarLayer.waves)
                                        - ActiveCount(solarLayer.waves),
                            !.held = nv[1] \in HoldKeys(solarLayer.state.holds)]
    /\ notes' = notes + 1
    /\ UNCHANGED <<midi, layer, now, frames, hold, bubblesLayer, wavesLayer, plasmaLayer,
                   treesLayer, waterLayer>>

StatsFrame ==
    /\ frames < BurstFrames
    /\ \E dt \in DeltaSet :
         /\ now' = now + dt
         /\ solarLayer' = updateSolar(solarLayer, timeSeconds(now + dt), now + dt)
         /\ lastOp' = [NoOp EXCEPT !.op = "updateSolar",
                         !.dt = timeSeconds(now + dt),
                         !.free = Len(solarLayer.flares)
                                    - ActiveCount(solarLayer.flares),
                         !.free2 = Len(solarLayer.waves)
                                     - ActiveCount(solarLayer.waves)]
    /\ frames' = frames + 1
    /\ UNCHANGED <<midi, layer, rng, notes, hold, bubblesLayer, wavesLayer, plasmaLayer,
                   treesLayer, waterLayer>>

NextStats ==
    \/ StatsNoteOn
    \/ StatsFrame

SpecStats == InitStats /\ [][NextStats]_vars

\* ------------------------------------------------- the life of one bubble
\* One bubble is spawned and updateBubbles runs every period ms until the
\* deltas applied (each capped at MAX_STEP_MS) total more than 6 seconds.
\* The seeds make Math.random() return 0.007, 0.496 and 0.999 for the life.
LifeSeeds == {0, 309, 952}
LifePlans ==
    {[NoHold EXCEPT !.phase = "bubble", !.period = p] : p \in {16, 50, 25000}}
LifeHorizon == 6 * 1000 + 4 * MAX_STEP_MS

\* the deltas applied to the bubble so far, ms
LifeApplied == frames * DeltaSeconds(hold.period)

InitLife ==
    /\ layer = "bubbles"
    /\ now = 0
    /\ rng \in LifeSeeds
    /\ frames = 0
    /\ notes = 0
    /\ lastOp = NoOp
    /\ midi = NoMidi
    /\ hold \in LifePlans
    /\ CreateLayers(0)

LifeSpawn ==
    /\ notes = 0
    /\ \E nv \in NoteInputs :
         /\ bubblesLayer' = onBubbleNoteOn(bubblesLayer, nv[2], noteToHue(nv[1]), rng)
         /\ lastOp' = [NoOp EXCEPT !.op = "onBubbleNoteOn", !.note = nv[1],
                         !.vel = nv[2],
                         !.free = Len(bubblesLayer.bubbles)
                                    - ActiveCount(bubblesLayer.bubbles)]
    /\ rng' = RandN(rng, 4)
    /\ notes' = notes + 1
    /\ UNCHANGED <<midi, layer, now, frames, hold, wavesLayer, plasmaLayer, treesLayer,
                   solarLayer, waterLayer>>

LifeFrame ==
    /\ notes = 1
    /\ LifeApplied <= LifeHorizon
    /\ now' = now + hold.period
    /\ bubblesLayer' = updateBubbles([bubblesLayer EXCEPT !.u_time = now + hold.period],
                                     hold.period)
    /\ lastOp' = [NoOp EXCEPT !.op = "updateBubbles", !.dt = hold.period]
    /\ frames' = frames + 1
    /\ UNCHANGED <<midi, layer, rng, notes, hold, wavesLayer, plasmaLayer, treesLayer,
                   solarLayer, waterLayer>>

NextLife ==
    \/ LifeSpawn
    \/ LifeFrame

SpecLife == InitLife /\ [][NextLife]_vars

\* ------------------------------------------- mode changes and resizes
\* Notes and frames as in Spec, with the user changing the mode and the
\* window being resized in between; a short run, since the layers now
\* evolve in one behaviour: the user goes back and forth between two
\* modes, which between them have slot pools, the hold map and the feature
\* state (solar) and a ripple list (waves).
UiModes == {"waves", "solar"}

InitUi ==
    /\ layer \in UiModes
    /\ now = 0
    /\ rng \in Seeds
    /\ frames = 0
    /\ notes = 0
    /\ lastOp = NoOp
    /\ midi = NoMidi
    /\ \E m \in UiModes \ {layer} :
         hold = [NoHold EXCEPT !.phase = "ui", !.other = m]
    /\ CreateLayers(0)

\* setMode(m) and the effect that follows it
ModeChange ==
    /\ hold.phase \in {"ui", "slots"} /\ UiBudget
    /\ LET m == hold.other
       IN
         /\ layer' = m
         /\ bubblesLayer' = setVisible(bubblesLayer, m, "bubbles")
         /\ wavesLayer' = setVisible(wavesLayer, m, "waves")
         /\ plasmaLayer' = setVisible(plasmaLayer, m, "plasma")
         /\ treesLayer' = setVisible(treesLayer, m, "trees")
         /\ solarLayer' = setVisible(solarLayer, m, "solar")
         /\ waterLayer' = setVisible(waterLayer, m, "water")
    /\ hold' = [hold EXCEPT !.switches = @ + 1, !.other = layer]
    /\ lastOp' = [NoOp EXCEPT !.op = "setMode"]
    /\ UNCHANGED <<midi, now, rng, frames, notes>>

\* handleResize: the new size goes to every layer
Resize ==
    /\ hold.phase = "ui" /\ UiSteps < MaxUiSteps
    /\ \E wh \in Sizes :
         /\ bubblesLayer' = setResolution(bubblesLayer, wh[1], wh[2])
         /\ wavesLayer' = setResolution(wavesLayer, wh[1], wh[2])
         /\ plasmaLayer' = setResolution(plasmaLayer, wh[1], wh[2])
         /\ treesLayer' = setResolution(treesLayer, wh[1], wh[2])
         /\ solarLayer' = setResolution(solarLayer, wh[1], wh[2])
         /\ waterLayer' = setResolution(waterLayer, wh[1], wh[2])
    /\ hold' = [hold EXCEPT !.resizes = @ + 1]
    /\ lastOp' = [NoOp EXCEPT !.op = "handleResize"]
    /\ UNCHANGED <<midi, layer, now, rng, frames, notes>>

\* resizeSolar called on the solar layer alone
SolarResize ==
    /\ hold.phase = "ui" /\ UiSteps < MaxUiSteps
    /\ \E wh \in Sizes :
         solarLayer' = resizeSolar(solarLayer, wh[1], wh[2])
    /\ hold' = [hold EXCEPT !.resizes = @ + 1]
    /\ lastOp' = [NoOp EXCEPT !.op = "resizeSolar"]
    /\ UNCHANGED <<midi, layer, now, rng, frames, notes, bubblesLayer, wavesLayer,
                   plasmaLayer, treesLayer, waterLayer>>

NextUi ==
    \/ SolarNoteOn
    \/ SolarNoteOff
    \/ SolarFrame
    \/ WaveNoteOn
    \/ WaveNoteOff
    \/ WaveFrame
    \/ ModeChange
    \/ Resize
    \/ SolarResize

SpecUi == InitUi /\ [][NextUi]_vars

\* ------------------------------------------- plasma under a steady frame rate
\* One note event fills the particle pool (hotspots for a note-on, sparks
\* for a note-off) and updatePlasma then runs every period ms, 16 or 5.  The
\* run is followed for as long as some active particle can still age: once
\* deltaSeconds * velocity.z adds nothing to any age ratio, velocity.z only
\* shrinks further and no later update changes an age ratio or an active
\* flag.  The seeds make Math.random() return 0.007 and 0.999 for the first
\* life.
DecaySeeds == {0, 952}
DecayPlans == {[NoHold EXCEPT !.phase = "decay", !.period = p] : p \in {16, 5}}

\* the next update raises the particle's age ratio
Ageing(p, deltaSeconds) ==
    p.active /\ (deltaSeconds * ((p.velocity[3] * 98) \div 100)) \div 1000 > 0

InitDecay ==
    /\ layer = "plasma"
    /\ now = 0
    /\ rng \in DecaySeeds
    /\ frames = 0
    /\ notes = 0
    /\ lastOp = NoOp
    /\ midi = NoMidi
    /\ hold \in DecayPlans
    /\ CreateLayers(0)

DecayNoteOn ==
    /\ notes = 0
    /\ \E nv \in NoteInputs :
         LET a == onPlasmaNoteOn(plasmaLayer, noteToX(nv[1]), nv[2], rng)
         IN /\ plasmaLayer' = a.layer
            /\ rng' = a.rng
            /\ lastOp' = [NoOp EXCEPT !.op = "onPlasmaNoteOn", !.note = nv[1],
                            !.vel = nv[2],
                            !.free = Len(plasmaLayer.particles)
                                       - ActiveCount(plasmaLayer.particles)]
    /\ notes' = notes + 1
    /\ UNCHANGED <<midi, layer, now, frames, hold, bubblesLayer, wavesLayer, treesLayer,
                   solarLayer, waterLayer>>

DecayNoteOff ==
    /\ notes = 0
    /\ \E nv \in NoteInputs, heldMs \in HeldInputs :
         LET a == onPlasmaNoteOff(plasmaLayer, noteToX(nv[1]), nv[2], heldMs, rng)
         IN /\ plasmaLayer' = a.layer
            /\ rng' = a.rng
            /\ lastOp' = [NoOp EXCEPT !.op = "onPlasmaNoteOff", !.note = nv[1],
                            !.vel = nv[2], !.heldMs = heldMs,
                            !.free = Len(plasmaLayer.particles)
                                       - ActiveCount(plasmaLayer.particles)]
    /\ notes' = notes + 1
    /\ UNCHANGED <<midi, layer, now, frames, hold, bubblesLayer, wavesLayer, treesLayer,
                   solarLayer, waterLayer>>

DecayFrame ==
    /\ notes = 1
    /\ \E i \in 1..MAX_PARTICLES :
         Ageing(plasmaLayer.particles[i], DeltaSeconds(hold.period))
    /\ LET a == updatePlasma(plasmaLayer, hold.period, now + hold.period, rng)
       IN /\ plasmaLayer' = a.layer
          /\ rng' = a.rng
    /\ now' = now + hold.period
    /\ lastOp' = [NoOp EXCEPT !.op = "updatePlasma", !.dt = hold.period]
    /\ frames' = frames + 1
    /\ UNCHANGED <<midi, layer, notes, hold, bubblesLayer, wavesLayer, treesLayer,
                   solarLayer, waterLayer>>

NextDecay ==
    \/ DecayNoteOn
    \/ DecayNoteOff
    \/ DecayFrame

\* requestAnimationFrame runs animate again after every frame
SpecDecay == InitDecay /\ [][NextDecay]_vars /\ WF_vars(DecayFrame)

\* ------------------------------------------------- full pools, hidden layers
\* Notes and frames of the bubbles and trees layers in any order, as many
\* notes as steps allow (more than the pools hold), with the user changing
\* between the two modes, so that a layer is hidden and not updated while
\* the clock runs on.
SlotModes == {"bubbles", "trees"}

InitSlots ==
    /\ layer \in SlotModes
    /\ now = 0
    /\ rng \in Seeds
    /\ frames = 0
    /\ notes = 0
    /\ lastOp = NoOp
    /\ midi = NoMidi
    /\ \E m \in SlotModes \ {layer} :
         hold = [NoHold EXCEPT !.phase = "slots", !.other = m]
    /\ CreateLayers(0)

NextSlots ==
    \/ BubbleNoteOn
    \/ BubbleFrame
    \/ TreeNoteOn
    \/ TreeFrame
    \/ ModeChange

SpecSlots == InitSlots /\ [][NextSlots]_vars

\* ------------------------------------------------------- the MIDI wiring
\* WebGLMidiVisualizer with useMidi and the UI, one MIDI input device.
\* mode starts as "waves"; the mount effect has called initMidi of the first
\* render, whose connectInput closed over midiAccess = null.
ModeButtons == {"bubbles", "waves", "plasma", "trees", "water"}

\* release velocities: a note-on with velocity 0, or a note-off message
OffVelocities == {0, 64}

NoteOnHandler ==
    [m \in Layers |->
       CASE m = "bubbles" -> "onBubbleNoteOn" [] m = "waves" -> "onWaveNoteOn"
         [] m = "plasma" -> "onPlasmaNoteOn" [] m = "trees" -> "onTreeNoteOn"
         [] m = "solar" -> "onSolarNoteOn" [] m = "water" -> "onWaterNoteOn"]

NoteOffHandler ==
    [m \in Layers |->
       CASE m = "bubbles" -> "onBubbleNoteOff" [] m = "waves" -> "onWaveNoteOff"
         [] m = "plasma" -> "onPlasmaNoteOff" [] m = "trees" -> "onTreeNoteOff"
         [] m = "solar" -> "onSolarNoteOff" [] m = "water" -> "onWaterNoteOff"]

\* onNoteOn of the render whose mode is m
onNoteOn(m, note, velocity) ==
    LET x == noteToX(note)
        hue == noteToHue(note)
        p == onPlasmaNoteOn(plasmaLayer, x, velocity, rng)
        s == onSolarNoteOn(solarLayer, note, velocity, now, rng)
    IN /\ bubblesLayer' = IF m = "bubbles"
                          THEN onBubbleNoteOn(bubblesLayer, velocity, hue, rng)
                          ELSE bubblesLayer
       /\ wavesLayer' = IF m = "waves"
                        THEN onWaveNoteOn(wavesLayer, x, velocity, now, rng)
                        ELSE wavesLayer
       /\ plasmaLayer' = IF m = "plasma" THEN p.layer ELSE plasmaLayer
       /\ treesLayer' = IF m = "trees"
                        THEN onTreeNoteOn(treesLayer, note, velocity,
                                          NoteColor(note), rng)
                        ELSE treesLayer
       /\ solarLayer' = IF m = "solar" THEN s.layer ELSE solarLayer
       /\ waterLayer' = IF m = "water"
                        THEN onWaterNoteOn(waterLayer, x, velocity, hue, now)
                        ELSE waterLayer
       /\ rng' = CASE m = "bubbles" -> RandN(rng, 4)
                   [] m \in {"waves", "trees"} -> NextRand(rng)
                   [] m = "plasma" -> p.rng
                   [] m = "solar" -> s.rng
                   [] OTHER -> rng
       /\ lastOp' = [NoOp EXCEPT !.op = NoteOnHandler[m], !.note = note,
                       !.vel = velocity]

\* onNoteOff of the render whose mode is m
onNoteOff(m, note, velocity, heldMs) ==
    LET x == noteToX(note)
        hue == noteToHue(note)
        p == onPlasmaNoteOff(plasmaLayer, x, velocity, heldMs, rng)
    IN /\ bubblesLayer' = IF m = "bubbles"
                          THEN onBubbleNoteOff(bubblesLayer, velocity, hue)
                          ELSE bubblesLayer
       /\ wavesLayer' = IF m = "waves"
                        THEN onWaveNoteOff(wavesLayer, x, velocity, heldMs, now, rng)
                        ELSE wavesLayer
       /\ plasmaLayer' = IF m = "plasma" THEN p.layer ELSE plasmaLayer
       /\ treesLayer' = IF m = "trees"
                        THEN onTreeNoteOff(treesLayer, note, velocity, heldMs)
                        ELSE treesLayer
       /\ solarLayer' = IF m = "solar"
                        THEN onSolarNoteOff(solarLayer, note, now)
                        ELSE solarLayer
       /\ waterLayer' = IF m = "water"
                        THEN onWaterNoteOff(waterLayer, x, velocity, heldMs, now, rng)
                        ELSE waterLayer
       /\ rng' = CASE m \in {"waves", "water"} -> NextRand(rng)
                   [] m = "plasma" -> p.rng
                   [] OTHER -> rng
       /\ lastOp' = [NoOp EXCEPT !.op = NoteOffHandler[m], !.note = note,
                       !.vel = velocity, !.heldMs = heldMs,
                       !.held = note \in HoldKeys(solarLayer.state.holds)]

\* the entries of notesRef for a note
NoteInfo(note) == {i \in midi.notesRef : i.note = note}

\* onMIDIMessage of the attached render, status 0x90 with velocity > 0
MidiNoteOn ==
    /\ midi.attached # "none" /\ notes < MaxMidiNotes
    /\ \E nv \in NoteInputs :
         /\ midi' = [midi EXCEPT !.notesRef = (@ \ NoteInfo(nv[1]))
                                   \cup {[note |-> nv[1], onTime |-> now]}]
         /\ onNoteOn(midi.attached, nv[1], nv[2])
    /\ notes' = notes + 1
    /\ UNCHANGED <<layer, now, frames, hold>>

\* onMIDIMessage of the attached render, status 0x80, or 0x90 with velocity
\* 0: onNoteOff is called only for a note that notesRef holds
MidiNoteOff ==
    /\ midi.attached # "none" /\ notes < MaxMidiNotes
    /\ \E nv \in NoteInputs, velocity \in OffVelocities :
         IF NoteInfo(nv[1]) # {}
         THEN /\ \E info \in NoteInfo(nv[1]) :
                   onNoteOff(midi.attached, nv[1], velocity, now - info.onTime)
              /\ midi' = [midi EXCEPT !.notesRef = @ \ NoteInfo(nv[1])]
         ELSE /\ lastOp' = [NoOp EXCEPT !.op = "onMIDIMessage", !.note = nv[1],
                              !.vel = velocity]
              /\ UNCHANGED <<midi, rng, layerVars>>
    /\ notes' = notes + 1
    /\ UNCHANGED <<layer, now, frames, hold>>

\* initMidi of the current render is called (the "Connect MIDI" button): it
\* waits for requestMIDIAccess with the connectInput of that render
InitMidiCall ==
    /\ midi.pending = {}
    /\ midi' = [midi EXCEPT !.pending = {[mode |-> layer, access |-> midi.access]}]
    /\ lastOp' = [NoOp EXCEPT !.op = "useMidi"]
    /\ UNCHANGED <<layer, now, rng, frames, notes, hold, layerVars>>

\* requestMIDIAccess resolves: setMidiAccess, then connectInput('') of the
\* render that made the call, which returns at once if that render had no
\* midiAccess and else attaches the onMIDIMessage of that render
InitMidiGranted ==
    /\ \E c \in midi.pending :
         midi' = [midi EXCEPT !.pending = @ \ {c},
                              !.access = TRUE,
                              !.attached = IF c.access THEN c.mode ELSE @]
    /\ lastOp' = [NoOp EXCEPT !.op = "useMidi"]
    /\ UNCHANGED <<layer, now, rng, frames, notes, hold, layerVars>>

\* requestMIDIAccess rejects: the catch branch changes nothing
InitMidiDenied ==
    /\ \E c \in midi.pending : midi' = [midi EXCEPT !.pending = @ \ {c}]
    /\ lastOp' = [NoOp EXCEPT !.op = "useMidi"]
    /\ UNCHANGED <<layer, now, rng, frames, notes, hold, layerVars>>

\* connectInput of the current render, from the input select, which is
\* enabled once initMidi has listed the inputs
ConnectInput ==
    /\ midi.access
    /\ midi' = [midi EXCEPT !.attached = layer]
    /\ lastOp' = [NoOp EXCEPT !.op = "useMidi"]
    /\ UNCHANGED <<layer, now, rng, frames, notes, hold, layerVars>>

\* setMode(m) and the effect that follows it
setMode(m) ==
    /\ m # layer
    /\ layer' = m
    /\ bubblesLayer' = setVisible(bubblesLayer, m, "bubbles")
    /\ wavesLayer' = setVisible(wavesLayer, m, "waves")
    /\ plasmaLayer' = setVisible(plasmaLayer, m, "plasma")
    /\ treesLayer' = setVisible(treesLayer, m, "trees")
    /\ solarLayer' = setVisible(solarLayer, m, "solar")
    /\ waterLayer' = setVisible(waterLayer, m, "water")
    /\ lastOp' = [NoOp EXCEPT !.op = "setMode"]
    /\ UNCHANGED <<midi, now, rng, frames, notes, hold>>

\* a click on one of the mode buttons of the UI
ClickMode == \E m \in ModeButtons : setMode(m)

InitMidi ==
    /\ layer = "waves"
    /\ now = 0
    /\ rng \in Seeds
    /\ frames = 0
    /\ notes = 0
    /\ lastOp = NoOp
    /\ hold = [NoHold EXCEPT !.phase = "midi"]
    /\ midi = [NoMidi EXCEPT !.pending = {[mode |-> "waves", access |-> FALSE]}]
    /\ CreateLayers(0)

NextMidi ==
    \/ ClickMode
    \/ InitMidiCall
    \/ InitMidiGranted
    \/ InitMidiDenied
    \/ ConnectInput
    \/ MidiNoteOn
    \/ MidiNoteOff

\* A user who keeps using the mode buttons: a button for another mode than
\* the selected one is pressed at some time.
SpecMidi ==
    InitMidi /\ [][NextMidi]_vars /\ \A m \in ModeButtons : WF_vars(setMode(m))

\* The same component with setMode called with any of UiModes, the solar
\* mode included (the mode state is a VisualizerMode, and onNoteOn, onNoteOff
\* and the mode effect have a case for "solar").
MidiModeChange == \E m \in UiModes : setMode(m)

NextMidiSolar ==
    \/ MidiModeChange
    \/ InitMidiCall
    \/ InitMidiGranted
    \/ InitMidiDenied
    \/ ConnectInput
    \/ MidiNoteOn
    \/ MidiNoteOff
    \/ WaveFrame
    \/ SolarFrame

SpecMidiSolar == InitMidi /\ [][NextMidiSolar]_vars

\* --------------------------------------------- solar pools running empty
\* updateSolar called again and again with one positive delta, period ms,
\* while keys are pressed and released; keys are pressed during the first
\* calls only.  A call is left out when it would change no flare and no
\* wave: while a key is down after MaxHeldFrames calls, and when nothing
\* active is left to move.
MaxQuietNotes == 2
MaxHeldFrames == 2

QuietPlans == {[NoHold EXCEPT !.phase = "quiet", !.period = p] : p \in {16, 50}}

InitQuiet ==
    /\ layer = "solar"
    /\ now = 0
    /\ rng \in Seeds
    /\ frames = 0
    /\ notes = 0
    /\ lastOp = NoOp
    /\ midi = NoMidi
    /\ hold \in QuietPlans
    /\ CreateLayers(0)

\* the flares and waves that a call with delta dtMs moves on
Moving(l, dtMs) ==
    {<<"flare", i>> : i \in {j \in 1..Len(l.flares) :
        /\ l.flares[j].active
        /\ FlareStep(l.flares[j], DeltaSeconds(dtMs)).data[4] > l.flares[j].data[4]}}
    \cup
    {<<"wave", i>> : i \in {j \in 1..Len(l.waves) :
        /\ l.waves[j].active
        /\ LET w == WaveStep(l.waves[j], DeltaSeconds(dtMs))
           IN ~w.active \/ w.data[3] > l.waves[j].data[3]}}

QuietNoteOn ==
    /\ notes < MaxQuietNotes /\ frames < MaxHeldFrames
    /\ \E nv \in NoteInputs :
         LET a == onSolarNoteOn(solarLayer, nv[1], nv[2], now, rng)
         IN /\ solarLayer' = a.layer
            /\ rng' = a.rng
            /\ lastOp' = [NoOp EXCEPT !.op = "onSolarNoteOn", !.note = nv[1],
                            !.vel = nv[2],
                            !.free = Len(solarLayer.flares)
                                       - ActiveCount(solarLayer.flares),
                            !.free2 = Len(solarLayer.waves)
                                        - ActiveCount(solarLayer.waves),
                            !.held = nv[1] \in HoldKeys(solarLayer.state.holds)]
    /\ notes' = notes + 1
    /\ UNCHANGED <<midi, layer, now, frames, hold, bubblesLayer, wavesLayer,
                   plasmaLayer, treesLayer, waterLayer>>

\* the release of a key that is down
QuietNoteOff ==
    /\ \E n \in solarLayer.state.activeNotes :
         /\ solarLayer' = onSolarNoteOff(solarLayer, n, now)
         /\ lastOp' = [NoOp EXCEPT !.op = "onSolarNoteOff", !.note = n,
                         !.free = Len(solarLayer.flares)
                                    - ActiveCount(solarLayer.flares),
                         !.free2 = Len(solarLayer.waves)
                                     - ActiveCount(solarLayer.waves),
                         !.held = n \in HoldKeys(solarLayer.state.holds)]
    /\ UNCHANGED <<midi, layer, now, rng, frames, notes, hold, bubblesLayer,
                   wavesLayer, plasmaLayer, treesLayer, waterLayer>>

QuietFrame ==
    /\ IF solarLayer.state.activeNotes # {} THEN hold.first < MaxHeldFrames
       ELSE Moving(solarLayer, hold.period) # {}
    /\ now' = now + hold.period
    /\ solarLayer' = updateSolar(solarLayer, hold.period, now + hold.period)
    /\ hold' = IF solarLayer.state.activeNotes # {}
               THEN [hold EXCEPT !.first = @ + 1] ELSE hold
    /\ lastOp' = [NoOp EXCEPT !.op = "updateSolar", !.dt = hold.period,
                    !.free = Len(solarLayer.flares) - ActiveCount(solarLayer.flares),
                    !.free2 = Len(solarLayer.waves) - ActiveCount(solarLayer.waves)]
    /\ frames' = frames + 1
    /\ UNCHANGED <<midi, layer, rng, notes, bubblesLayer, wavesLayer, plasmaLayer,
                   treesLayer, waterLayer>>

NextQuiet ==
    \/ QuietNoteOn
    \/ QuietNoteOff
    \/ QuietFrame

\* animate runs again after every frame, and a key that is down is released
\* at some time
SpecQuiet ==
    InitQuiet /\ [][NextQuiet]_vars /\ WF_vars(QuietFrame) /\ WF_vars(QuietNoteOff)

\* ============================================================ properties
\* C1: after any sequence of note-on, note-off and update calls on any
\* layer, the number of active instances never exceeds the capacity of the
\* layer: bubbles, plasma particles, tree seeds, solar flares, solar waves,
\* and the ripples of the waves and water layers.
C1_Capacity ==
    /\ Len(bubblesLayer.bubbles) = MAX_BUBBLES
    /\ ActiveCount(bubblesLayer.bubbles) <= MAX_BUBBLES
    /\ Len(plasmaLayer.particles) = MAX_PARTICLES
    /\ ActiveCount(plasmaLayer.particles) <= MAX_PARTICLES
    /\ Len(treesLayer.seeds) = MAX_SEEDS
    /\ ActiveCount(treesLayer.seeds) <= MAX_SEEDS
    /\ Len(solarLayer.flares) = MAX_FLARES
    /\ ActiveCount(solarLayer.flares) <= MAX_FLARES
    /\ Len(solarLayer.waves) = MAX_WAVES
    /\ ActiveCount(solarLayer.waves) <= MAX_WAVES
    /\ Len(wavesLayer.ripples) <= MAX_RIPPLES
    /\ Len(waterLayer.ripples) <= MAX_RIPPLES

\* a ripple was added to a waves layer that was already at capacity
C1_Witness ==
    /\ lastOp.op \in {"onWaveNoteOn", "onWaveNoteOff"}
    /\ lastOp.free = 0
    /\ Len(wavesLayer.ripples) = MAX_RIPPLES

\* C2: in every reachable state of every fixed-slot layer, each inactive
\* pool slot has a marshalled uniform record whose magnitude channel is
\* exactly 0: bubble radius z, plasma size z, tree seed z, flare size z,
\* solar wave strength w.
C2_BubblesZero ==
    \A i \in 1..MAX_BUBBLES :
        ~bubblesLayer.bubbles[i].active => bubblesLayer.u_bubbles[i][3] = 0

C2_PlasmaZero ==
    \A i \in 1..MAX_PARTICLES :
        ~plasmaLayer.particles[i].active => plasmaLayer.u_particles[i][3] = 0

C2_TreesZero ==
    \A i \in 1..MAX_SEEDS :
        ~treesLayer.seeds[i].active => treesLayer.u_seeds[i][3] = 0

C2_FlaresZero ==
    \A i \in 1..MAX_FLARES :
        ~solarLayer.flares[i].active => solarLayer.u_flares[i][3] = 0

C2_WavesZero ==
    \A i \in 1..MAX_WAVES :
        ~solarLayer.waves[i].active => solarLayer.u_waves[i][4] = 0

C2_ZeroOnInactive ==
    /\ C2_BubblesZero
    /\ C2_PlasmaZero
    /\ C2_TreesZero
    /\ C2_FlaresZero
    /\ C2_WavesZero

\* C3: for each of updateBubbles, updatePlasma, updateTrees and updateSolar,
\* one update with deltaMs = 10000 produces, from any reachable state and
\* with the same clock reading and random draws, the same state as one
\* update with deltaMs = 50.
C3_ClampedDelta ==
    /\ layer = "bubbles" =>
         updateBubbles(bubblesLayer, 10000) = updateBubbles(bubblesLayer, 50)
    /\ layer = "plasma" =>
         updatePlasma(plasmaLayer, 10000, now, rng)
           = updatePlasma(plasmaLayer, 50, now, rng)
    /\ layer = "trees" =>
         updateTrees(treesLayer, 10000, now) = updateTrees(treesLayer, 50, now)
    /\ layer = "solar" =>
         updateSolar(solarLayer, 10000, now) = updateSolar(solarLayer, 50, now)

\* a state with a live flare and a live wave that a stalled frame of the
\* solar layer moves
C3_Witness ==
    /\ ActiveCount(solarLayer.flares) > 0
    /\ ActiveCount(solarLayer.waves) > 0
    /\ updateSolar(solarLayer, 10000, now).flares # solarLayer.flares
    /\ updateSolar(solarLayer, 10000, now).waves # solarLayer.waves

\* age / life of a bubble, as updateBubbles computes it
BubbleAgeRatio(b) == (b.age * FP) \div b.velocity[4]

\* C4: for an active bubble, plasma particle or solar flare, the age ratio
\* never decreases from one update to the next while the instance stays
\* active.
C4_AgeMonotone ==
    [][/\ lastOp'.op = "updateBubbles" =>
            \A i \in 1..MAX_BUBBLES :
                bubblesLayer.bubbles[i].active /\ bubblesLayer'.bubbles[i].active
                  => BubbleAgeRatio(bubblesLayer'.bubbles[i])
                       >= BubbleAgeRatio(bubblesLayer.bubbles[i])
       /\ lastOp'.op = "updatePlasma" =>
            \A i \in 1..MAX_PARTICLES :
                plasmaLayer.particles[i].active /\ plasmaLayer'.particles[i].active
                  => plasmaLayer'.particles[i].data[4]
                       >= plasmaLayer.particles[i].data[4]
       /\ lastOp'.op = "updateSolar" =>
            \A i \in 1..MAX_FLARES :
                solarLayer.flares[i].active /\ solarLayer'.flares[i].active
                  => solarLayer'.flares[i].data[4] >= solarLayer.flares[i].data[4]
      ]_vars

\* a flare that has aged through at least one update and is still active
C4_Witness ==
    /\ lastOp.op = "updateSolar"
    /\ \E i \in 1..MAX_FLARES :
         solarLayer.flares[i].active /\ solarLayer.flares[i].data[4] > 0

\* spawn attempts on the current pools, with the arguments of a note
C5_SpawnsDiscarded ==
    \A nv \in NoteInputs :
      /\ ActiveCount(plasmaLayer.particles) = MAX_PARTICLES =>
           /\ addHotspot(plasmaLayer.particles, noteToX(nv[1]), nv[2] * FP, rng).pool
                = plasmaLayer.particles
           /\ addSpark(plasmaLayer.particles, noteToX(nv[1]), nv[2] * FP, rng).pool
                = plasmaLayer.particles
      /\ ActiveCount(solarLayer.flares) = MAX_FLARES =>
           spawnFlare(solarLayer.flares, noteToDiskXY(nv[1])[1],
                      noteToDiskXY(nv[1])[2], 800, 12000, rng).pool
             = solarLayer.flares
      /\ ActiveCount(solarLayer.waves) = MAX_WAVES =>
           spawnWave(solarLayer.waves, noteToDiskXY(nv[1]), noteToColor(nv[1]),
                     4500, 4500, 200, 5500) = solarLayer.waves

\* the handlers that spawn, called with the pool full
C5_HandlersDiscard ==
    /\ lastOp'.op \in {"onPlasmaNoteOn", "onPlasmaNoteOff"} /\ lastOp'.free = 0
         => plasmaLayer'.particles = plasmaLayer.particles
    /\ lastOp'.op = "onSolarNoteOn" /\ lastOp'.free = 0
         => solarLayer'.flares = solarLayer.flares
    /\ lastOp'.op \in {"onSolarNoteOn", "onSolarNoteOff"} /\ lastOp'.free2 = 0
         => solarLayer'.waves = solarLayer.waves

\* C5: when every slot of a drop-on-full pool is active (plasma particles,
\* solar flares, solar waves), a spawn attempt by addHotspot, addSpark,
\* spawnFlare or spawnWave leaves every slot of the pool unchanged.
C5_DropOnFull == []C5_SpawnsDiscarded /\ [][C5_HandlersDiscard]_vars

\* a solar note-on that found both the flare pool and the wave pool full
C5_Witness ==
    /\ lastOp.op = "onSolarNoteOn"
    /\ lastOp.free = 0
    /\ lastOp.free2 = 0
    /\ ActiveCount(solarLayer.waves) = MAX_WAVES

\* the slot a bubble note-on writes into an untouched pool
FreshBubble(vel, hue, r) == onBubbleNoteOn(createBubblesLayer, vel, hue, r).bubbles[1]

\* the slot a tree note-on writes into an untouched pool at layer time t
FreshSeed(note, vel, t, r) ==
    onTreeNoteOn([createTreesLayer EXCEPT !.u_time = t], note, vel,
                 NoteColor(note), r).seeds[1]

\* C6: when every bubble slot (every tree-seed slot) is active, a note-on
\* rewrites exactly one slot with the complete state of the new instance, so
\* that nothing of the evicted instance survives in it; every other slot is
\* unchanged and the pool remains full.
C6_OverwriteOnFull ==
    [][/\ lastOp'.op = "onBubbleNoteOn" /\ lastOp'.free = 0 =>
            /\ \E k \in 1..MAX_BUBBLES :
                 /\ bubblesLayer'.bubbles[k]
                      = FreshBubble(lastOp'.vel, noteToHue(lastOp'.note), rng)
                 /\ \A j \in 1..MAX_BUBBLES \ {k} :
                      bubblesLayer'.bubbles[j] = bubblesLayer.bubbles[j]
            /\ ActiveCount(bubblesLayer'.bubbles) = MAX_BUBBLES
       /\ lastOp'.op = "onTreeNoteOn" /\ lastOp'.free = 0 =>
            /\ \E k \in 1..MAX_SEEDS :
                 /\ treesLayer'.seeds[k]
                      = FreshSeed(lastOp'.note, lastOp'.vel, treesLayer.u_time, rng)
                 /\ \A j \in 1..MAX_SEEDS \ {k} :
                      treesLayer'.seeds[j] = treesLayer.seeds[j]
            /\ ActiveCount(treesLayer'.seeds) = MAX_SEEDS
      ]_vars

\* a bubble note-on found the pool full after the bubbles had aged: the
\* rewritten slot is new while the other one keeps its age
C6_Witness ==
    /\ lastOp.op = "onBubbleNoteOn"
    /\ lastOp.free = 0
    /\ frames > 0
    /\ bubblesLayer.bubbles[1].age = 0
    /\ bubblesLayer.bubbles[2].age > 0

\* C7: after onSolarNoteOff(note) the note is in neither activeNotes nor
\* holds, whether or not it was held and whether or not the wave pool had a
\* free slot for the final burst.
C7_NoteOffForgets ==
    lastOp.op = "onSolarNoteOff" =>
        /\ lastOp.note \notin solarLayer.state.activeNotes
        /\ lastOp.note \notin HoldKeys(solarLayer.state.holds)

\* a held note was released while the wave pool was full
C7_Witness ==
    /\ lastOp.op = "onSolarNoteOff"
    /\ lastOp.held
    /\ lastOp.free2 = 0
    /\ lastOp.note \notin HoldKeys(solarLayer.state.holds)

\* what every onSolarNoteOn does to the note: a hold entry with origin,
\* colour and start time, and membership in activeNotes
C8_Held ==
    lastOp'.op = "onSolarNoteOn" =>
        LET k == HoldIndex(solarLayer'.state.holds, lastOp'.note)
        IN /\ k # 0
           /\ solarLayer'.state.holds[k].startMs = now
           /\ solarLayer'.state.holds[k].lastSpawnMs = now
           /\ solarLayer'.state.holds[k].origin = noteToDiskXY(lastOp'.note)
           /\ solarLayer'.state.holds[k].color = noteToColor(lastOp'.note)
           /\ lastOp'.note \in solarLayer'.state.activeNotes

\* C8 as stated: every onSolarNoteOn puts the note into the held state and
\* makes exactly one new wave instance active.
C8_Original ==
    [][/\ C8_Held
       /\ lastOp'.op = "onSolarNoteOn" =>
            ActiveCount(solarLayer'.waves) = ActiveCount(solarLayer.waves) + 1
      ]_vars

\* C8, amended: every onSolarNoteOn puts the note into the held state; it
\* makes exactly one new wave active when the wave pool has an inactive
\* slot, and leaves the wave pool unchanged when every wave slot is active.
C8_NoteOnHolds ==
    [][/\ C8_Held
       /\ lastOp'.op = "onSolarNoteOn" =>
            IF lastOp'.free2 > 0
            THEN /\ ActiveCount(solarLayer'.waves)
                      = ActiveCount(solarLayer.waves) + 1
                 /\ \E k \in 1..MAX_WAVES :
                      /\ ~solarLayer.waves[k].active
                      /\ solarLayer'.waves[k].active
                      /\ \A j \in 1..MAX_WAVES \ {k} :
                           solarLayer'.waves[j] = solarLayer.waves[j]
            ELSE solarLayer'.waves = solarLayer.waves
      ]_vars

\* a note-on arrived with every wave slot active: the note is held and no
\* wave was added
C8_Witness ==
    /\ lastOp.op = "onSolarNoteOn"
    /\ lastOp.free2 = 0
    /\ lastOp.note \in HoldKeys(solarLayer.state.holds)
    /\ lastOp.note \in solarLayer.state.activeNotes

\* the hold durations of the notes held at this moment
HeldNow == {now - solarLayer.state.holds[k].startMs :
              k \in 1..Len(solarLayer.state.holds)}

\* 40% of the base interval, in milliseconds times FP
RepeatFloor == (repeatMs * FP * 4) \div 10

C9_Bounded ==
    \A d \in HeldNow :
        /\ RepeatInterval(d) >= RepeatFloor
        /\ RepeatInterval(d) <= repeatMs * FP
        /\ d >= 3000 => RepeatInterval(d) = RepeatFloor
        /\ d < 3000 => RepeatInterval(d) > RepeatFloor

C9_Shrinks ==
    \A k \in 1..Len(solarLayer.state.holds) :
        (k <= Len(solarLayer'.state.holds)
           /\ solarLayer'.state.holds[k].note = solarLayer.state.holds[k].note
           /\ solarLayer'.state.holds[k].startMs = solarLayer.state.holds[k].startMs)
          => RepeatInterval(now' - solarLayer.state.holds[k].startMs)
               <= RepeatInterval(now - solarLayer.state.holds[k].startMs)

\* C9: while a note is held, the repeat interval that updateSolar compares
\* with the time since the last spawn never grows with the hold duration,
\* is never below 40% of the base interval of 140 ms, and reaches that
\* floor of 56 ms at a hold of 3 seconds.
C9_RepeatInterval == []C9_Bounded /\ [][C9_Shrinks]_vars

\* a note held for more than 3 seconds whose emitter fired at the floor
C9_Witness ==
    /\ hold.phase = "held"
    /\ lastOp.op = "updateSolar"
    /\ \E d \in HeldNow : d > 3000 /\ RepeatInterval(d) = RepeatFloor
    /\ \E k \in 1..Len(solarLayer.state.holds) :
         solarLayer.state.holds[k].lastSpawnMs = now

C11_FeaturesBounded ==
    LET s == solarLayer.state
    IN /\ 0 <= s.emaEnergy /\ s.emaEnergy <= 3 * FP
       /\ 0 <= s.emaPitch /\ s.emaPitch <= 127 * FP
       /\ s.emaPitchVar >= 0
       /\ \A i \in 1..4 : 0 <= solarLayer.u_params[i] /\ solarLayer.u_params[i] <= FP
       /\ \A i \in 1..2 : 0 <= solarLayer.u_color[i] /\ solarLayer.u_color[i] <= FP

\* an update after a burst of two keys that drove the energy past 2.6, where
\* the brightness is held at 1
C11_Witness ==
    /\ lastOp.op = "updateSolar"
    /\ solarLayer.state.emaEnergy > 26 * 1000
    /\ solarLayer.u_params[1] = FP
    /\ Cardinality(solarLayer.state.activeNotes) = 2

\* C12: a bubble note-on for (note, vel) that finds an inactive slot activates
\* exactly one slot, the inactive one of lowest index, with age 0, hue
\* ((note mod 12) * 30) / 360 and initial radius 0.03 + (vel / 127) * 0.12;
\* every other slot is left as it was.
C12_SpawnLowestFree ==
    [][(lastOp'.op = "onBubbleNoteOn" /\ lastOp'.free > 0) =>
         LET old == bubblesLayer.bubbles
             new == bubblesLayer'.bubbles
             i == CHOOSE k \in 1..Len(old) :
                    ~old[k].active /\ \A j \in 1..(k - 1) : old[j].active
         IN /\ Len(new) = Len(old)
            /\ new[i].active
            /\ new[i].age = 0
            /\ new[i].data[4] = (((lastOp'.note % 12) * 30) * FP) \div 360
            /\ new[i].velocity[3] = 300 + (lastOp'.vel * 1200) \div 127
            /\ \A j \in 1..Len(old) : j # i => new[j] = old[j]]_vars

\* a note-on that finds the first slot taken by a bubble one frame old and
\* spawns into the second
C12_Witness ==
    /\ lastOp.op = "onBubbleNoteOn"
    /\ lastOp.free = MAX_BUBBLES - 1
    /\ bubblesLayer.bubbles[1].active /\ bubblesLayer.bubbles[1].age > 0
    /\ bubblesLayer.bubbles[2].active /\ bubblesLayer.bubbles[2].age = 0

\* C13: a bubble spawned by note-on is inactive once the updateBubbles calls
\* applied to it have capped deltas totalling more than 6 seconds, whatever
\* the frame period (16 ms, 50 ms, or stalls, which count 50 ms each); until
\* it dies its age is the total applied and no more than its life, which is
\* below 6 seconds.
C13_DeadAfterSixSeconds ==
    notes = 1 =>
      LET b == bubblesLayer.bubbles[1]
      IN /\ LifeApplied > 6 * 1000 => ~b.active
         /\ b.active => /\ b.age = LifeApplied
                        /\ b.age <= b.velocity[4]
                        /\ b.velocity[4] < 6 * 1000

\* the longest-lived bubble (life 5.997 s) still active after 5.95 s of 50 ms
\* steps and gone at the step that takes the total past its life
C13_Witness ==
    /\ lastOp.op = "updateBubbles"
    /\ hold.period = MAX_STEP_MS
    /\ bubblesLayer.bubbles[1].velocity[4] > 5990
    /\ ~bubblesLayer.bubbles[1].active
    /\ LifeApplied = 6 * 1000

\* the strength of the final burst of a hold begun at startMs and released
\* at t: 0.5 + 0.8 * clamp(heldSeconds / 2.5, 0, 1)
ReleaseStrength(startMs, t) ==
    5000 + (8 * clamp(((t - startMs) * FP) \div 2500, 0, FP)) \div 10

\* C14 as stated: every onSolarNoteOff for a held note spawns a wave of
\* strength 0.5 + 0.8 * clamp(heldSeconds / 2.5, 0, 1), the hold measured
\* from that note's note-on.
C14_Original ==
    [][(lastOp'.op = "onSolarNoteOff" /\ lastOp'.held) =>
         LET h == solarLayer.state.holds[HoldIndex(solarLayer.state.holds,
                                                   lastOp'.note)]
         IN \E k \in 1..Len(solarLayer.waves) :
              /\ ~solarLayer.waves[k].active
              /\ solarLayer'.waves[k].active
              /\ solarLayer'.waves[k].data[4] = ReleaseStrength(h.startMs, now')]_vars

\* C14, amended: onSolarNoteOff for a held note spawns that wave into the
\* first inactive wave slot when there is one, and changes no wave when the
\* pool is full; the strength is at least 0.5, at most 1.3, and 1.14 for a
\* hold of 2000 ms.
C14_ReleaseWave ==
    [][(lastOp'.op = "onSolarNoteOff" /\ lastOp'.held) =>
         LET h == solarLayer.state.holds[HoldIndex(solarLayer.state.holds,
                                                   lastOp'.note)]
             old == solarLayer.waves
             new == solarLayer'.waves
             s == ReleaseStrength(h.startMs, now')
         IN /\ lastOp'.free2 = 0 => new = old
            /\ lastOp'.free2 > 0 =>
                 \E k \in 1..Len(old) :
                   /\ ~old[k].active /\ \A j \in 1..(k - 1) : old[j].active
                   /\ new[k].active
                   /\ new[k].data[4] = s
                   /\ \A j \in 1..Len(old) : j # k => new[j] = old[j]
            /\ 5000 <= s /\ s <= 13 * 1000
            /\ ReleaseWave(createSolarLayer(0).waves, h,
                           h.startMs + 2000)[1].data[4] = 11400]_vars

\* a key released 50 ms after its note-on with a wave slot free: the burst
\* has strength 0.5 + 0.8 * 0.02
C14_Witness ==
    /\ lastOp.op = "onSolarNoteOff" /\ lastOp.held /\ lastOp.free2 > 0
    /\ now = MAX_STEP_MS
    /\ \E k \in 1..Len(solarLayer.waves) :
         solarLayer.waves[k].active /\ solarLayer.waves[k].data[4] = 5160

\* C15: onBubbleNoteOff and onTreeNoteOff leave the pool slots and the
\* uniform arrays of their layer exactly as they were, whatever the
\* arguments and whatever the pool holds.
C15_NoteOffNoOp ==
    [][/\ lastOp'.op = "onBubbleNoteOff" =>
            /\ bubblesLayer'.bubbles = bubblesLayer.bubbles
            /\ bubblesLayer'.u_bubbles = bubblesLayer.u_bubbles
       /\ lastOp'.op = "onTreeNoteOff" =>
            /\ treesLayer'.seeds = treesLayer.seeds
            /\ treesLayer'.u_seeds = treesLayer.u_seeds
            /\ treesLayer'.u_seed_colors = treesLayer.u_seed_colors]_vars

\* a bubble note-off arriving while a bubble that has been drawn is active
C15_Witness ==
    /\ lastOp.op = "onBubbleNoteOff"
    /\ \E i \in 1..MAX_BUBBLES :
         /\ bubblesLayer.bubbles[i].active
         /\ bubblesLayer.bubbles[i].age > 0
         /\ bubblesLayer.u_bubbles[i] = bubblesLayer.bubbles[i].data

\* C16, layer by layer: an update with deltaMs = 0, at the clock reading of
\* the state, leaves the position, velocity, age, size or strength and
\* active flag of every pool instance as they are.
C16_BubblesStill ==
    layer = "bubbles" =>
      updateBubbles(bubblesLayer, 0).bubbles = bubblesLayer.bubbles

C16_PlasmaStill ==
    layer = "plasma" =>
      updatePlasma(plasmaLayer, 0, now, rng).layer.particles = plasmaLayer.particles

C16_TreesStill ==
    layer = "trees" =>
      LET new == updateTrees(treesLayer, 0, now).seeds
      IN \A i \in 1..MAX_SEEDS :
           /\ new[i].active = treesLayer.seeds[i].active
           /\ new[i].data = treesLayer.seeds[i].data

C16_FlaresStill ==
    layer = "solar" => updateSolar(solarLayer, 0, now).flares = solarLayer.flares

C16_WavesStill ==
    layer = "solar" => updateSolar(solarLayer, 0, now).waves = solarLayer.waves

C16_RipplesStill ==
    /\ layer = "waves" => updateWaves(wavesLayer, 0, now).ripples = wavesLayer.ripples
    /\ layer = "water" => updateWater(waterLayer, 0, now).ripples = waterLayer.ripples

\* C16: calling a layer's update with deltaMs = 0 performs no integration:
\* position, velocity, age, size or strength and active flag of every pool
\* instance are the same after the call as before it.
C16_ZeroDeltaNoOp ==
    /\ C16_BubblesStill
    /\ C16_PlasmaStill
    /\ C16_TreesStill
    /\ C16_FlaresStill
    /\ C16_WavesStill
    /\ C16_RipplesStill

\* C17, layer by layer: after an update every uniform record of a live slot
\* equals the slot's data and every other record has its size or strength
\* at zero.
C17_BubblesWritten ==
    lastOp.op = "updateBubbles" =>
      \A i \in 1..MAX_BUBBLES :
        IF bubblesLayer.bubbles[i].active
        THEN bubblesLayer.u_bubbles[i] = bubblesLayer.bubbles[i].data
        ELSE bubblesLayer.u_bubbles[i][3] = 0

C17_PlasmaWritten ==
    lastOp.op = "updatePlasma" =>
      \A i \in 1..MAX_PARTICLES :
        IF plasmaLayer.particles[i].active
        THEN plasmaLayer.u_particles[i] = plasmaLayer.particles[i].data
        ELSE plasmaLayer.u_particles[i][3] = 0

C17_TreesWritten ==
    lastOp.op = "updateTrees" =>
      \A i \in 1..MAX_SEEDS :
        IF treesLayer.seeds[i].active
        THEN /\ treesLayer.u_seeds[i] = treesLayer.seeds[i].data
             /\ treesLayer.u_seed_colors[i] = treesLayer.seeds[i].colorData
        ELSE treesLayer.u_seeds[i][3] = 0

C17_SolarWritten ==
    lastOp.op = "updateSolar" =>
      /\ \A i \in 1..MAX_FLARES :
           IF solarLayer.flares[i].active
           THEN solarLayer.u_flares[i] = solarLayer.flares[i].data
           ELSE solarLayer.u_flares[i][3] = 0
      /\ \A i \in 1..MAX_WAVES :
           IF solarLayer.waves[i].active
           THEN /\ solarLayer.u_waves[i] = solarLayer.waves[i].data
                /\ solarLayer.u_waveColor[i] = solarLayer.waves[i].color
           ELSE solarLayer.u_waves[i][4] = 0

C17_RipplesWritten ==
    /\ lastOp.op = "updateWaves" =>
         \A i \in 1..RippleUniforms :
           IF i <= Len(wavesLayer.ripples)
           THEN wavesLayer.u_ripples[i]
                  = <<wavesLayer.ripples[i].x, wavesLayer.ripples[i].y,
                      wavesLayer.ripples[i].strength, wavesLayer.ripples[i].birth>>
           ELSE wavesLayer.u_ripples[i][3] = 0
    /\ lastOp.op = "updateWater" =>
         \A i \in 1..RippleUniforms :
           i > Len(waterLayer.ripples) => waterLayer.u_ripples[i][3] = 0

Hidden(l) == [l EXCEPT !.visible = FALSE]
NoRes(l) == [l EXCEPT !.u_resolution = <<0, 0>>]

\* C18: a change of the visible mode modifies no pool slot, ripple list,
\* hold map, feature state or uniform of any layer, only the visibility of
\* the meshes (the layer of the new mode is shown, the others hidden); and
\* a frame leaves every hidden layer untouched, so a layer switched away
\* from and back to holds what it held when it was left.
C18_ModePreserves ==
    [][/\ lastOp'.op = "setMode" =>
            /\ Hidden(bubblesLayer') = Hidden(bubblesLayer)
            /\ Hidden(wavesLayer') = Hidden(wavesLayer)
            /\ Hidden(plasmaLayer') = Hidden(plasmaLayer)
            /\ Hidden(treesLayer') = Hidden(treesLayer)
            /\ Hidden(solarLayer') = Hidden(solarLayer)
            /\ Hidden(waterLayer') = Hidden(waterLayer)
            /\ bubblesLayer'.visible = (layer' = "bubbles")
            /\ wavesLayer'.visible = (layer' = "waves")
            /\ plasmaLayer'.visible = (layer' = "plasma")
            /\ treesLayer'.visible = (layer' = "trees")
            /\ solarLayer'.visible = (layer' = "solar")
            /\ waterLayer'.visible = (layer' = "water")
       /\ lastOp'.op \in {"updateBubbles", "updateWaves", "updatePlasma",
                          "updateTrees", "updateSolar", "updateWater"} =>
            /\ ~bubblesLayer.visible => bubblesLayer' = bubblesLayer
            /\ ~wavesLayer.visible => wavesLayer' = wavesLayer
            /\ ~plasmaLayer.visible => plasmaLayer' = plasmaLayer
            /\ ~treesLayer.visible => treesLayer' = treesLayer
            /\ ~solarLayer.visible => solarLayer' = solarLayer
            /\ ~waterLayer.visible => waterLayer' = waterLayer]_vars

\* back in solar mode after a visit to waves: the flare spawned and drawn
\* before leaving is still there, and the waves layer has been drawn since
C18_Witness ==
    /\ lastOp.op = "setMode" /\ hold.switches = 2
    /\ layer = "solar" /\ solarLayer.visible /\ ~wavesLayer.visible
    /\ ActiveCount(solarLayer.flares) > 0
    /\ solarLayer.u_time > 0
    /\ wavesLayer.u_time > solarLayer.u_time

\* C19: a resize, by handleResize for all layers or by resizeSolar for the
\* solar layer, sets u_resolution and changes nothing else: no pool slot,
\* uniform record, hold entry or feature statistic, and no other layer.
C19_ResizeOnlyResolution ==
    [][/\ lastOp'.op = "handleResize" =>
            /\ NoRes(bubblesLayer') = NoRes(bubblesLayer)
            /\ NoRes(wavesLayer') = NoRes(wavesLayer)
            /\ NoRes(plasmaLayer') = NoRes(plasmaLayer)
            /\ NoRes(treesLayer') = NoRes(treesLayer)
            /\ NoRes(solarLayer') = NoRes(solarLayer)
            /\ NoRes(waterLayer') = NoRes(waterLayer)
            /\ solarLayer'.u_resolution \in Sizes
            /\ wavesLayer'.u_resolution = solarLayer'.u_resolution
       /\ lastOp'.op = "resizeSolar" =>
            /\ NoRes(solarLayer') = NoRes(solarLayer)
            /\ solarLayer'.u_resolution \in Sizes
            /\ <<bubblesLayer', wavesLayer', plasmaLayer', treesLayer',
                 waterLayer'>>
                 = <<bubblesLayer, wavesLayer, plasmaLayer, treesLayer,
                     waterLayer>>]_vars

\* a resize arriving while the solar layer has a hold and an active flare
\* and the waves layer a ripple
C19_Witness ==
    /\ lastOp.op = "handleResize"
    /\ Len(solarLayer.state.holds) > 0
    /\ ActiveCount(solarLayer.flares) > 0
    /\ Len(wavesLayer.ripples) > 0
    /\ solarLayer.u_resolution \in Sizes
    /\ wavesLayer.u_resolution \in Sizes


\* ---- C21
\* the handlers of the solar layer clamp the velocity: velocity 200 spawns
\* what velocity 127 spawns
C21_SolarVelocity ==
    onSolarNoteOn(solarLayer, 60, 200, now, rng)
        = onSolarNoteOn(solarLayer, 60, clamp(200, 0, 127), now, rng)

\* ... but solar derives the disk position and the tint from the raw note
C21_SolarNote ==
    onSolarNoteOn(solarLayer, 130, 100, now, rng).layer.flares
        = onSolarNoteOn(solarLayer, clamp(130, 0, 127), 100, now, rng).layer.flares

\* the bubble handler, called as the component calls it
C21_BubbleClamped ==
    /\ onBubbleNoteOn(bubblesLayer, 200, noteToHue(60), rng)
         = onBubbleNoteOn(bubblesLayer, clamp(200, 0, 127), noteToHue(60), rng)
    /\ onBubbleNoteOn(bubblesLayer, 100, noteToHue(130), rng)
         = onBubbleNoteOn(bubblesLayer, 100, noteToHue(clamp(130, 0, 127)), rng)

C21_PlasmaClamped ==
    /\ onPlasmaNoteOn(plasmaLayer, noteToX(60), 200, rng)
         = onPlasmaNoteOn(plasmaLayer, noteToX(60), clamp(200, 0, 127), rng)
    /\ onPlasmaNoteOn(plasmaLayer, noteToX(130), 100, rng)
         = onPlasmaNoteOn(plasmaLayer, noteToX(clamp(130, 0, 127)), 100, rng)

C21_TreesClamped ==
    /\ onTreeNoteOn(treesLayer, 60, 200, NoteColor(60), rng)
         = onTreeNoteOn(treesLayer, 60, clamp(200, 0, 127), NoteColor(60), rng)
    /\ onTreeNoteOn(treesLayer, 130, 100, NoteColor(130), rng)
         = onTreeNoteOn(treesLayer, clamp(130, 0, 127), 100,
                        NoteColor(clamp(130, 0, 127)), rng)

C21_RipplesClamped ==
    /\ onWaveNoteOn(wavesLayer, noteToX(60), 200, now, rng)
         = onWaveNoteOn(wavesLayer, noteToX(60), clamp(200, 0, 127), now, rng)
    /\ onWaveNoteOn(wavesLayer, noteToX(130), 100, now, rng)
         = onWaveNoteOn(wavesLayer, noteToX(clamp(130, 0, 127)), 100, now, rng)
    /\ onWaterNoteOn(waterLayer, noteToX(60), 200, noteToHue(60), now)
         = onWaterNoteOn(waterLayer, noteToX(60), clamp(200, 0, 127),
                         noteToHue(60), now)
    /\ onWaterNoteOn(waterLayer, noteToX(130), 100, noteToHue(130), now)
         = onWaterNoteOn(waterLayer, noteToX(clamp(130, 0, 127)), 100,
                         noteToHue(clamp(130, 0, 127)), now)

\* C21: in every reachable state, each layer's note-on handler given a
\* velocity (200) or a note number (130) outside [0,127] spawns exactly the
\* instance it spawns for the clamped value (127)
C21_InputsClamped ==
    /\ C21_SolarVelocity
    /\ C21_SolarNote
    /\ C21_BubbleClamped
    /\ C21_PlasmaClamped
    /\ C21_TreesClamped
    /\ C21_RipplesClamped


\* ---- C22
\* C22 as stated: every pool sequence, the ripple lists included, has the
\* length of its capacity in every reachable state
C22_Original ==
    /\ Len(bubblesLayer.bubbles) = MAX_BUBBLES
    /\ Len(plasmaLayer.particles) = MAX_PARTICLES
    /\ Len(treesLayer.seeds) = MAX_SEEDS
    /\ Len(solarLayer.flares) = MAX_FLARES
    /\ Len(solarLayer.waves) = MAX_WAVES
    /\ Len(wavesLayer.ripples) = MAX_RIPPLES
    /\ Len(waterLayer.ripples) = MAX_RIPPLES

\* C22: the fixed-slot pools (bubbles, particles, seeds, flares, solar waves)
\* keep the length of their capacity in every reachable state; the ripple
\* lists of waves and water start empty and their length stays between 0
\* and the limit, while their uniform arrays keep a constant length
C22_PoolLengths ==
    /\ Len(bubblesLayer.bubbles) = MAX_BUBBLES
    /\ Len(plasmaLayer.particles) = MAX_PARTICLES
    /\ Len(treesLayer.seeds) = MAX_SEEDS
    /\ Len(solarLayer.flares) = MAX_FLARES
    /\ Len(solarLayer.waves) = MAX_WAVES
    /\ Len(wavesLayer.ripples) \in 0..MAX_RIPPLES
    /\ Len(waterLayer.ripples) \in 0..MAX_RIPPLES
    /\ Len(wavesLayer.u_ripples) = RippleUniforms
    /\ Len(waterLayer.u_ripples) = RippleUniforms

\* a water note-on has just replaced the oldest ripple of a full list, which
\* keeps the length of the limit, after the list had grown from empty
C22_Witness ==
    /\ lastOp.op = "onWaterNoteOn"
    /\ lastOp.free = 0
    /\ Len(waterLayer.ripples) = MAX_RIPPLES
    /\ waterLayer.ripples[MAX_RIPPLES].birth > waterLayer.ripples[1].birth


\* ---- C23
\* the slots a step has written
BubblesWritten == {i \in 1..MAX_BUBBLES : bubblesLayer.bubbles[i] # bubblesLayer'.bubbles[i]}
SeedsWritten == {i \in 1..MAX_SEEDS : treesLayer.seeds[i] # treesLayer'.seeds[i]}

\* C23: a bubble note-on made with the pool full overwrites a bubble that no
\* other bubble of the pool is older than (age is the time since the spawn),
\* and a tree note-on made with the pool full overwrites a seed that no
\* other seed was born before
C23_OverwritesOldest ==
    [][/\ (lastOp'.op = "onBubbleNoteOn" /\ lastOp'.free = 0) =>
            \A i \in BubblesWritten : \A j \in 1..MAX_BUBBLES :
                bubblesLayer.bubbles[j].age <= bubblesLayer.bubbles[i].age
       /\ (lastOp'.op = "onTreeNoteOn" /\ lastOp'.free = 0) =>
            \A i \in SeedsWritten : \A j \in 1..MAX_SEEDS :
                treesLayer.seeds[j].data[3] >= treesLayer.seeds[i].data[3]]_vars

\* C23, bubbles only and trees only
C23_BubblesOldest ==
    [][(lastOp'.op = "onBubbleNoteOn" /\ lastOp'.free = 0) =>
            \A i \in BubblesWritten : \A j \in 1..MAX_BUBBLES :
                bubblesLayer.bubbles[j].age <= bubblesLayer.bubbles[i].age]_vars

C23_SeedsOldest ==
    [][(lastOp'.op = "onTreeNoteOn" /\ lastOp'.free = 0) =>
            \A i \in SeedsWritten : \A j \in 1..MAX_SEEDS :
                treesLayer.seeds[j].data[3] >= treesLayer.seeds[i].data[3]]_vars


\* ---- C24
\* an update of the solar layer raises the age ratio of every active flare
\* by clampedDt * (1 / life) and leaves life and 1 / life as spawned
C24_FlareAge ==
    [][lastOp'.op = "updateSolar" =>
         \A i \in 1..MAX_FLARES :
            solarLayer.flares[i].active =>
              /\ solarLayer'.flares[i].data[4]
                   = solarLayer.flares[i].data[4]
                     + (solarLayer.flares[i].velocity[4] * DeltaSeconds(lastOp'.dt))
                         \div 1000
              /\ solarLayer'.flares[i].velocity[3] = solarLayer.flares[i].velocity[3]
              /\ solarLayer'.flares[i].velocity[4] = solarLayer.flares[i].velocity[4]]_vars

\* the same for the particles of the plasma layer
C24_ParticleAge ==
    [][lastOp'.op = "updatePlasma" =>
         \A i \in 1..MAX_PARTICLES :
            plasmaLayer.particles[i].active =>
              /\ plasmaLayer'.particles[i].data[4]
                   = plasmaLayer.particles[i].data[4]
                     + (plasmaLayer.particles[i].velocity[4] * DeltaSeconds(lastOp'.dt))
                         \div 1000
              /\ plasmaLayer'.particles[i].velocity[3]
                   = plasmaLayer.particles[i].velocity[3]
              /\ plasmaLayer'.particles[i].velocity[4]
                   = plasmaLayer.particles[i].velocity[4]]_vars

\* C24: every update raises the age ratio of each active plasma particle
\* and each active solar flare by exactly the clamped delta times the
\* inverse of the life chosen at spawn, and the stored life and inverse
\* life do not change while the instance lives
C24_AgeByInverseLife ==
    [][/\ lastOp'.op = "updateSolar" =>
            \A i \in 1..MAX_FLARES :
               solarLayer.flares[i].active =>
                 /\ solarLayer'.flares[i].data[4]
                      = solarLayer.flares[i].data[4]
                        + (solarLayer.flares[i].velocity[4]
                             * DeltaSeconds(lastOp'.dt)) \div 1000
                 /\ solarLayer'.flares[i].velocity[3]
                      = solarLayer.flares[i].velocity[3]
                 /\ solarLayer'.flares[i].velocity[4]
                      = solarLayer.flares[i].velocity[4]
       /\ lastOp'.op = "updatePlasma" =>
            \A i \in 1..MAX_PARTICLES :
               plasmaLayer.particles[i].active =>
                 /\ plasmaLayer'.particles[i].data[4]
                      = plasmaLayer.particles[i].data[4]
                        + (plasmaLayer.particles[i].velocity[4]
                             * DeltaSeconds(lastOp'.dt)) \div 1000
                 /\ plasmaLayer'.particles[i].velocity[3]
                      = plasmaLayer.particles[i].velocity[3]
                 /\ plasmaLayer'.particles[i].velocity[4]
                      = plasmaLayer.particles[i].velocity[4]]_vars


\* ---- C25
\* C25: under updatePlasma calls at a steady 16 ms or 5 ms, every particle
\* slot that is active is inactive at some later time
C25_EventuallyInactive ==
    \A i \in 1..MAX_PARTICLES :
        plasmaLayer.particles[i].active ~> ~plasmaLayer.particles[i].active

\* a particle is active, below age ratio 1, and no update can age it any
\* more
C25_Stuck ==
    \E i \in 1..MAX_PARTICLES :
        /\ plasmaLayer.particles[i].active
        /\ plasmaLayer.particles[i].data[4] < FP
        /\ \A j \in 1..MAX_PARTICLES :
              ~Ageing(plasmaLayer.particles[j], DeltaSeconds(hold.period))


\* once no particle can age, no later update ages or deactivates one: for
\* every active particle of such a state, whatever velocity.z at or below
\* its present one and whatever Math.random() an update meets, the update
\* leaves the age ratio and the active flag as they are and the particle
\* still cannot age
C25_QuietIsFinal ==
    (notes = 1 /\ \A j \in 1..MAX_PARTICLES :
                     ~Ageing(plasmaLayer.particles[j], DeltaSeconds(hold.period))) =>
        \A i \in 1..MAX_PARTICLES :
           plasmaLayer.particles[i].active =>
             \A z \in 0..plasmaLayer.particles[i].velocity[3] : \A rj \in {0, 500, 999} :
                LET p == [plasmaLayer.particles[i] EXCEPT !.velocity[3] = z]
                    q == PlasmaStep(p, DeltaSeconds(hold.period), rj)
                IN /\ q.active
                   /\ q.data[4] = p.data[4]
                   /\ q.velocity[3] <= z
                   /\ ~Ageing(q, DeltaSeconds(hold.period))

\* ---- C26
\* C26: when a note-on has spawned a seed into an empty pool at time now
\* and the next call on the layer is an updateTrees at time now', whatever
\* went before (frames, mode changes, time spent hidden), the seed is
\* active after the update if no more than 20 seconds have passed since the
\* note-on, and inactive otherwise
C26_TwentySecondsFromNoteOn ==
    [][(/\ lastOp.op = "onTreeNoteOn"
        /\ lastOp.free = MAX_SEEDS
        /\ lastOp'.op = "updateTrees") =>
          \A i \in 1..MAX_SEEDS :
             treesLayer.seeds[i].active =>
               (treesLayer'.seeds[i].active <=> now' - now <= 20 * 1000)]_vars

\* the birth time a note-on records is the time of the note-on
C26_BirthIsNoteOnTime ==
    [][lastOp'.op = "onTreeNoteOn" =>
          \A i \in SeedsWritten : treesLayer'.seeds[i].data[3] = now']_vars


\* ---- C27
\* C27 as stated: after an updateTrees no active seed has a flash intensity
\* of 0
C27_Original ==
    lastOp.op = "updateTrees" =>
        \A i \in 1..MAX_SEEDS :
           treesLayer.seeds[i].active => treesLayer.seeds[i].colorData[4] > 0

\* C27: updateTrees deactivates a seed exactly when more than 20 seconds
\* separate the update from the seed's birth time; the flash intensity
\* falls by 2 per second down to 0 and has no part in it, so a seed whose
\* flash has reached 0 stays active until its 20 seconds are over
C27_FlashDoesNotKill ==
    [][lastOp'.op = "updateTrees" =>
         \A i \in 1..MAX_SEEDS :
            treesLayer.seeds[i].active =>
              /\ treesLayer'.seeds[i].active
                   <=> now' - treesLayer.seeds[i].data[3] <= 20 * 1000
              /\ treesLayer'.seeds[i].active =>
                   treesLayer'.seeds[i].colorData[4]
                     = Max(0, treesLayer.seeds[i].colorData[4]
                                - 20 * DeltaSeconds(lastOp'.dt))]_vars

\* an updateTrees has left a seed active whose flash is 0
C27_Witness ==
    /\ lastOp.op = "updateTrees"
    /\ \E i \in 1..MAX_SEEDS :
          /\ treesLayer.seeds[i].active
          /\ treesLayer.seeds[i].colorData[4] = 0


\* ---- C28
\* the update calls of the five layers other than solar get the time since
\* the previous frame
C28_OthersDelta ==
    [][lastOp'.op \in {"updateBubbles", "updateWaves", "updatePlasma",
                       "updateTrees", "updateWater"}
         => lastOp'.dt = now' - now]_vars

\* C28: the delta argument of every update call the animation loop makes,
\* for each of the six layers, is the time elapsed since the previous frame
\* (the advance of the clock over the step), in milliseconds
C28_DeltaArgument ==
    [][lastOp'.op \in {"updateBubbles", "updateWaves", "updatePlasma",
                       "updateTrees", "updateSolar", "updateWater"}
         => lastOp'.dt = now' - now]_vars


\* ---- C29
\* C29: after each updateSolar every active wave has strength at least 0.02
\* and radius at most 2.0, and a wave the update has deactivated has
\* strength 0 in the pool and in its marshalled record
C29_WaveThresholds ==
    [][lastOp'.op = "updateSolar" =>
         \A i \in 1..MAX_WAVES :
            /\ solarLayer'.waves[i].active =>
                 /\ solarLayer'.waves[i].data[4] >= 200
                 /\ solarLayer'.waves[i].data[3] <= 2 * FP
            /\ (solarLayer.waves[i].active /\ ~solarLayer'.waves[i].active) =>
                 /\ solarLayer'.waves[i].data[4] = 0
                 /\ solarLayer'.u_waves[i][4] = 0]_vars

\* an updateSolar has just deactivated a wave whose radius has passed 2.0,
\* and its marshalled record has strength 0
C29_Witness ==
    /\ lastOp.op = "updateSolar"
    /\ lastOp.free2 < MAX_WAVES - ActiveCount(solarLayer.waves)
    /\ \E i \in 1..MAX_WAVES :
          /\ ~solarLayer.waves[i].active
          /\ solarLayer.waves[i].data[3] > 2 * FP
          /\ solarLayer.waves[i].data[4] = 0
          /\ solarLayer.u_waves[i][4] = 0


\* ---- C30
\* the slots an update has deactivated
BubblesDied == {i \in 1..MAX_BUBBLES :
                  bubblesLayer.bubbles[i].active /\ ~bubblesLayer'.bubbles[i].active}
ParticlesDied == {i \in 1..MAX_PARTICLES :
                    plasmaLayer.particles[i].active /\ ~plasmaLayer'.particles[i].active}
SeedsDied == {i \in 1..MAX_SEEDS :
                treesLayer.seeds[i].active /\ ~treesLayer'.seeds[i].active}
FlaresDied == {i \in 1..MAX_FLARES :
                 solarLayer.flares[i].active /\ ~solarLayer'.flares[i].active}
WavesDied == {i \in 1..MAX_WAVES :
                solarLayer.waves[i].active /\ ~solarLayer'.waves[i].active}

\* C30 as stated: the marshalled record of an instance that an update
\* deactivates is zero in every field after that update
C30_Original ==
    [][/\ lastOp'.op = "updateBubbles" =>
            \A i \in BubblesDied : bubblesLayer'.u_bubbles[i] = Zero4
       /\ lastOp'.op = "updatePlasma" =>
            \A i \in ParticlesDied : plasmaLayer'.u_particles[i] = Zero4
       /\ lastOp'.op = "updateTrees" =>
            \A i \in SeedsDied : /\ treesLayer'.u_seeds[i] = Zero4
                                 /\ treesLayer'.u_seed_colors[i] = Zero4
       /\ lastOp'.op = "updateSolar" =>
            /\ \A i \in FlaresDied : solarLayer'.u_flares[i] = Zero4
            /\ \A i \in WavesDied : /\ solarLayer'.u_waves[i] = Zero4
                                    /\ solarLayer'.u_waveColor[i] = Zero4]_vars

\* C30: on the update that deactivates an instance, bubbles and trees zero
\* the whole marshalled record; plasma, solar flares and solar waves zero
\* only the size or strength channel and marshal the other channels as the
\* update left them: the last position, the age ratio that ended the life
\* (plasma above 1, flares at least 1), the radius and the colour and width
\* of the wave
C30_DeathRecords ==
    [][/\ lastOp'.op = "updateBubbles" =>
            \A i \in BubblesDied : bubblesLayer'.u_bubbles[i] = Zero4
       /\ lastOp'.op = "updateTrees" =>
            \A i \in SeedsDied : /\ treesLayer'.u_seeds[i] = Zero4
                                 /\ treesLayer'.u_seed_colors[i] = Zero4
       /\ lastOp'.op = "updatePlasma" =>
            \A i \in ParticlesDied :
               /\ plasmaLayer'.u_particles[i] = plasmaLayer'.particles[i].data
               /\ plasmaLayer'.u_particles[i][3] = 0
               /\ plasmaLayer'.u_particles[i][4] > FP
       /\ lastOp'.op = "updateSolar" =>
            /\ \A i \in FlaresDied :
                  /\ solarLayer'.u_flares[i] = solarLayer'.flares[i].data
                  /\ solarLayer'.u_flares[i][3] = 0
                  /\ solarLayer'.u_flares[i][4] >= FP
            /\ \A i \in WavesDied :
                  /\ solarLayer'.u_waves[i] = solarLayer'.waves[i].data
                  /\ solarLayer'.u_waves[i][4] = 0
                  /\ solarLayer'.u_waves[i][3] > 0
                  /\ solarLayer'.u_waveColor[i] = solarLayer'.waves[i].color
                  /\ solarLayer'.u_waveColor[i][4] > 0]_vars

\* an updatePlasma has left a dead particle whose record has size 0 and
\* still holds the age ratio that ended its life
C30_Witness ==
    /\ lastOp.op = "updatePlasma"
    /\ \E i \in 1..MAX_PARTICLES :
          /\ ~plasmaLayer.particles[i].active
          /\ plasmaLayer.u_particles[i][3] = 0
          /\ plasmaLayer.u_particles[i][4] > FP


\* ---- C31
\* C31: in every reachable state the age ratio of every active plasma
\* particle and of every active solar flare lies in [0, 1], whatever frame
\* deltas (a normal frame, a stall, a zero step of the solar layer) the
\* updates were given
C31_AgeRatioRange ==
    /\ \A i \in 1..MAX_PARTICLES :
          plasmaLayer.particles[i].active =>
             /\ plasmaLayer.particles[i].data[4] >= 0
             /\ plasmaLayer.particles[i].data[4] <= FP
    /\ \A i \in 1..MAX_FLARES :
          solarLayer.flares[i].active =>
             /\ solarLayer.flares[i].data[4] >= 0
             /\ solarLayer.flares[i].data[4] <= FP

\* an updatePlasma given a stall as its delta has left a particle active
\* that has aged
C31_Witness ==
    /\ lastOp.op = "updatePlasma"
    /\ lastOp.dt > MAX_STEP_MS
    /\ \E i \in 1..MAX_PARTICLES :
          /\ plasmaLayer.particles[i].active
          /\ plasmaLayer.particles[i].data[4] > 0


\* ---- C32
\* the hotspots a note-on of velocity v attempts: 1 below 64, 2 from 64 to
\* 126, 3 at 127
HotspotsAttempted(v) == IF v < 64 THEN 1 ELSE IF v < 127 THEN 2 ELSE 3

\* C32: onPlasmaNoteOn with any velocity v of 0..127 attempts
\* 1 + floor((v / 127) * 2) hotspots, a number from 1 to 3 (evaluated after
\* every note-on), and in every reachable state of the plasma pool it
\* activates min(count, free slots) slots and leaves every slot that was
\* active as it was (velocities 0, 64, 127: one, two, three hotspots)
C32_HotspotCount ==
    /\ lastOp.op = "onPlasmaNoteOn" =>
         \A v \in 0..127 : PlasmaNoteOnCount(v) = HotspotsAttempted(v)
    /\ layer = "plasma" =>
         \A v \in {0, 64, 127} :
            LET before == plasmaLayer.particles
                after == onPlasmaNoteOn(plasmaLayer, noteToX(60), v, rng).layer.particles
                free == Len(before) - ActiveCount(before)
            IN /\ Len(after) = Len(before)
               /\ ActiveCount(after) - ActiveCount(before)
                    = Min(HotspotsAttempted(v), free)
               /\ \A i \in 1..Len(before) : before[i].active => after[i] = before[i]

\* a note-on that attempted two hotspots has found one free slot only
C32_Witness ==
    /\ lastOp.op = "onPlasmaNoteOn"
    /\ PlasmaNoteOnCount(lastOp.vel) = 2
    /\ lastOp.free = 1
    /\ ActiveCount(plasmaLayer.particles) = MAX_PARTICLES


\* ---- C33
\* hold times tried, ms: none, one step of the boost, and up to past the
\* cap (127 * 25 = 3175)
HeldGrid == {0, 25, 1000, 2000, 3175, 5000}

\* C33: after every note-off of the plasma layer, for every velocity of
\* 0..127 and every hold time of the grid, heldMs = 0 included,
\* onPlasmaNoteOff uses the effective velocity min(127, vel + heldMs / 25),
\* the number of sparks it attempts does not fall when heldMs or vel grows
\* and is greater than the number of hotspots a note-on of the same velocity
\* attempts; and in every reachable state of the pool it activates
\* min(count, free slots) slots (the softest short and the loudest long
\* release)
C33_ReleaseBurst ==
    /\ lastOp.op = "onPlasmaNoteOff" =>
         \A v \in 0..127 : \A h \in HeldGrid :
            LET count == PlasmaNoteOffCount(PlasmaFlareVel(v, h))
            IN /\ 25 * PlasmaFlareVel(v, h) = Min(127 * 25, 25 * v + h) * FP
               /\ count > PlasmaNoteOnCount(v)
               /\ v < 127 => count <= PlasmaNoteOffCount(PlasmaFlareVel(v + 1, h))
               /\ \A g \in HeldGrid :
                     g > h => count <= PlasmaNoteOffCount(PlasmaFlareVel(v, g))
    /\ layer = "plasma" =>
         \A vh \in {<<0, 0>>, <<127, 2000>>} :
            LET before == plasmaLayer.particles
                after == onPlasmaNoteOff(plasmaLayer, noteToX(60), vh[1], vh[2],
                                         rng).layer.particles
            IN ActiveCount(after) - ActiveCount(before)
                 = Min(PlasmaNoteOffCount(PlasmaFlareVel(vh[1], vh[2])),
                       Len(before) - ActiveCount(before))

\* a note-off with heldMs = 0 has filled the empty pool with sparks, and a
\* longer hold of the same velocity would have attempted more
C33_Witness ==
    /\ lastOp.op = "onPlasmaNoteOff"
    /\ lastOp.heldMs = 0
    /\ lastOp.free = MAX_PARTICLES
    /\ ActiveCount(plasmaLayer.particles) = MAX_PARTICLES
    /\ PlasmaNoteOffCount(PlasmaFlareVel(lastOp.vel, 2000))
         > PlasmaNoteOffCount(PlasmaFlareVel(lastOp.vel, 0))


\* ---- C34
\* C34: in every reachable state the notes that have an entry in holds are
\* the notes of activeNotes, and no note has two entries
C34_HoldsAreActiveNotes ==
    /\ HoldKeys(solarLayer.state.holds) = solarLayer.state.activeNotes
    /\ Len(solarLayer.state.holds) = Cardinality(solarLayer.state.activeNotes)

\* a note-on has repeated a note that was already held, while another note
\* is held too
C34_Witness ==
    /\ lastOp.op = "onSolarNoteOn"
    /\ lastOp.held
    /\ Cardinality(solarLayer.state.activeNotes) = 2
    /\ lastOp.note \in HoldKeys(solarLayer.state.holds)

\* C36: every note-on and note-off that arrives from the connected MIDI
\* input is dispatched to the handler of the layer whose mode is selected
\* when the event arrives, for any interleaving of mode changes, input
\* connections and MIDI messages.  (A mode change resets lastOp, so the
\* selected mode of a state whose lastOp is a note handler is the mode at
\* the moment of the event.)
C36_DispatchToSelected ==
    lastOp.op \in {NoteOnHandler[m] : m \in Layers}
                    \cup {NoteOffHandler[m] : m \in Layers}
      => lastOp.op \in {NoteOnHandler[layer], NoteOffHandler[layer]}

C39_SolarSelectable == <>(layer = "solar" /\ solarLayer.visible)

\* what holds instead: each mode that has a button is selected at some time,
\* and the solar mode never is, nor is its handler ever attached
C39_ButtonModesSelected == \A m \in ModeButtons : <>(layer = m)

C39_SolarNeverSelected ==
    layer # "solar" /\ ~solarLayer.visible /\ midi.attached # "solar"

\* C37: under repeated updateSolar calls with a positive delta every active
\* solar flare and every active solar wave is deactivated at some time, and
\* with no note held both pools become empty: from some time on no key is
\* down and no flare and no wave is active, so whatever was active before
\* has been deactivated.
C37_EventuallyDeactivated ==
    <>[](/\ solarLayer.state.activeNotes = {}
         /\ ActiveCount(solarLayer.flares) + ActiveCount(solarLayer.waves) = 0)

\* an update that found a flare or a wave active and left both pools empty,
\* no key being down
C37_Witness ==
    /\ lastOp.op = "updateSolar"
    /\ lastOp.free < MAX_FLARES \/ lastOp.free2 < MAX_WAVES
    /\ notes > 0
    /\ solarLayer.state.activeNotes = {}
    /\ ActiveCount(solarLayer.flares) + ActiveCount(solarLayer.waves) = 0

\* every active flare and wave is moved on by every call with the delta of
\* the run, so no call is left out while something is active
C37_ActiveMoves ==
    Cardinality(Moving(solarLayer, hold.period))
      = ActiveCount(solarLayer.flares) + ActiveCount(solarLayer.waves)

\* old with one ripple of the smallest birth removed and one ripple pushed
EvictsOldest(old, new) ==
    /\ Len(new) = MAX_RIPPLES
    /\ \E k \in 1..Len(old) :
         /\ \A j \in 1..Len(old) : old[k].birth <= old[j].birth
         /\ SubSeq(new, 1, Len(new) - 1) = Splice(old, k)

\* the first ripple of the list is an oldest one
FirstIsOldest(ripples) ==
    \A j \in 1..Len(ripples) : ripples[1].birth <= ripples[j].birth

\* C38: when the waves or the water layer holds MAX_RIPPLES ripples (30 in
\* the source), a note event removes exactly one ripple, one with the
\* smallest birth time, pushes the new one and leaves MAX_RIPPLES ripples;
\* the first ripple of the waves layer is always the oldest.
C38_EvictsOldest ==
    /\ [](FirstIsOldest(wavesLayer.ripples))
    /\ [][/\ (notes' = notes + 1 /\ layer = "waves"
               /\ Len(wavesLayer.ripples) >= MAX_RIPPLES)
             => EvictsOldest(wavesLayer.ripples, wavesLayer'.ripples)
          /\ (notes' = notes + 1 /\ layer = "water"
               /\ Len(waterLayer.ripples) >= MAX_RIPPLES)
             => EvictsOldest(waterLayer.ripples, waterLayer'.ripples)]_vars

\* a note of the waves layer that found the list full, the ripples of the
\* list being of different age
C38_Witness ==
    /\ lastOp.op \in {"onWaveNoteOn", "onWaveNoteOff"}
    /\ lastOp.free = 0
    /\ Len(wavesLayer.ripples) = MAX_RIPPLES
    /\ wavesLayer.ripples[1].birth < wavesLayer.ripples[MAX_RIPPLES].birth

\* the same for the water layer
C38_WitnessWater ==
    /\ lastOp.op \in {"onWaterNoteOn", "onWaterNoteOff"}
    /\ lastOp.free = 0
    /\ Len(waterLayer.ripples) = MAX_RIPPLES
    /\ waterLayer.ripples[1].birth < waterLayer.ripples[MAX_RIPPLES].birth

====
